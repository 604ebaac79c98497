------------------------------ MODULE MCServer ------------------------------
(* An instance of Server for TLC.                                          *)
EXTENDS Server

CONSTANTS t1

OneTimer == <<t1>>

Line(key, num, unit, text) == [key |-> key, value |-> Value(num, unit, text)]

Option(opt, arg) == [opt |-> opt, arg |-> arg]

\* The beginnings of the levels' names that the files use, and some more.
MCBeginnings ==
    ("DEBUG" :> {"", "d", "Debug", "DEBUG"}) @@ ("WARNING" :> {"", "warn", "WARNING"})
        @@ ("ERROR" :> {"", "err", "ERROR"})

Comment == Line(<< >>, 0, "", "")

\* A file that changes its mind, one with abbreviated keys and a level that lmap has
\* too late, and one with keys that have no value.
MCFiles ==
    ("twice" :>
        <<Line(<<"unix", "socket">>, 0, "", "/tmp/sol.sock"), Comment,
          Line(<<"max", "request", "size">>, 1, "mb", "1MB"),
          Line(<<"ip", "address">>, 0, "", "10.0.0.1"),
          Line(<<"max", "request", "size">>, 3, "kb", "3KB"),
          Line(<<"log", "level">>, 0, "", "warn"), Line(<<"log", "level">>, 0, "", "err"),
          Line(<<"log", "level">>, 0, "", "INFO"),
          Line(<<"stats", "publish", "interval">>, 0, "s", "0s"),
          Line(<<"stats", "publish", "interval">>, 2, "m", "2m"),
          Line(<<"no", "such", "key">>, 1, "", "1")>>) @@
    ("short" :>
        <<Line(<<"log">>, 0, "", "INFO"), Line(<<"max">>, 1, "gb", "1GB"),
          Line(<<"ip">>, 0, "", "10.0.0.1"), Line(<<"ip", "port">>, 9090, "", "9090"),
          Line(<<"tcp">>, 128, "", "128"), Line(<<"log", "path">>, 0, "", "/var/log/sol"),
          Line(<<"unix">>, 0, "", "/tmp/sol.sock"), Line(<<"stats">>, 1, "h", "1h")>>) @@
    ("empty" :>
        <<Line(<<"stats">>, 0, "", ""), Line(<<"log", "level">>, 0, "", ""),
          Line(<<"max", "request">>, 0, "", ""), Line(<<"tcp">>, 0, "", "")>>)

MCCommands ==
    {<<Option("c", "twice"), Option("a", "10.0.0.2")>>,
     <<Option("v", ""), Option("p", "1884"), Option("c", "short")>>,
     <<Option("c", "empty"), Option("c", "none"), Option("a", "h1"), Option("a", "h2")>>,
     <<Option("c", "empty")>>,
     <<Option("m", "")>>}
=============================================================================
