------------------------------- MODULE Config -------------------------------
(***************************************************************************)
(* Start-up: main (sol.c) sets defaults, applies the options, reads the     *)
(* configuration file (config.c) and opens the listening socket             *)
(* (make_listen, network.c).  One step per option and per line.             *)
(*                                                                          *)
(* A key is a sequence of words.  Keys are compared with strncasecmp over   *)
(* the length of the key in the file, so any prefix of a name is taken for  *)
(* it; the first name in add_config_value's order wins.  A value is its     *)
(* leading number, what follows the number, and its text.                   *)
(***************************************************************************)
EXTENDS Integers, SequencesExt

CONSTANTS
    Commands,   \* command lines: sequences of options
    Files,      \* the configuration files: from paths to sequences of lines
    Beginnings, \* Beginnings[level]: the texts that strncasecmp finds equal to the
                \* level's name over their own length
    Kilo,       \* 1024
    SOMAXCONN

ASSUME KiloAssumption == Kilo \in Nat \ {0}
ASSUME SomaxconnAssumption == SOMAXCONN \in Nat
ASSUME CommandsAssumption == Commands \subseteq Seq([opt : STRING, arg : STRING])
ASSUME FilesAssumption ==
    /\ DOMAIN Files \subseteq STRING
    /\ \A path \in DOMAIN Files :
          Files[path] \in Seq([key : Seq(STRING),
                               value : [num : Int, unit : STRING, text : STRING]])

\* The levels that are looked for: the first three of the five in lmap.
Levels == {"DEBUG", "WARNING", "ERROR"}

\* No two of them begin alike, so only the empty text stands for more than one.
ASSUME BeginningsAssumption ==
    /\ Beginnings \in [Levels -> SUBSET STRING]
    /\ \A l, m \in Levels : l # m => Beginnings[l] \cap Beginnings[m] = {""}

VARIABLES
    phase,      \* where main is
    argv,       \* the options it was called with
    optind,     \* the next one
    confpath, debug,
    line,       \* the next line of the file
    config      \* struct config

configvars == <<phase, argv, optind, confpath, debug, line, config>>

-----------------------------------------------------------------------------
read_memory_with_mul(v) ==
    v.num * (CASE v.unit = "kb" -> Kilo
               [] v.unit = "mb" -> Kilo * Kilo
               [] v.unit = "gb" -> Kilo * Kilo * Kilo
               [] OTHER -> 1)

\* Mutant: a unit of its own is needed.
read_time_with_mul_strict(v) ==
    v.num * (CASE v.unit = "m" -> 60
               [] v.unit = "d" -> 60 * 60 * 24
               [] OTHER -> 0)

\* Hours have no case of their own.
read_time_with_mul(v) ==
    v.num * (CASE v.unit = "m" -> 60
               [] v.unit = "d" -> 60 * 60 * 24
               [] OTHER -> 1)

Value(num, unit, text) == [num |-> num, unit |-> unit, text |-> text]

\* The level a text sets: the names of three levels are tried, each compared over the
\* length of the text, and the last that fits wins.
log_level(text, old) ==
    IF text \in Beginnings["ERROR"] THEN "ERROR"
    ELSE IF text \in Beginnings["WARNING"] THEN "WARNING"
    ELSE IF text \in Beginnings["DEBUG"] THEN "DEBUG"
    ELSE old

\* Mutant: no limit.
capped_not(n) == n

capped(n) == IF n <= SOMAXCONN THEN n ELSE SOMAXCONN

names == <<<<"log", "level">>, <<"log", "path">>, <<"unix", "socket">>, <<"ip", "address">>,
           <<"ip", "port">>, <<"max", "memory">>, <<"max", "request", "size">>,
           <<"tcp", "backlog">>, <<"stats", "publish", "interval">>>>

\* Mutant: the address of a Unix socket leaves the family alone.
set_hostname_only(c, family, v) == [c EXCEPT !.hostname = v.text]

\* unix_socket and ip_address.
set_hostname(c, family, v) == [c EXCEPT !.socket_family = family, !.hostname = v.text]

\* The chain of comparisons; a key nobody knows changes nothing.
add_config_value(c, key, v) ==
    LET is(i) == IsPrefix(key, names[i]) IN
    IF is(1) THEN [c EXCEPT !.loglevel = log_level(v.text, @)]
    ELSE IF is(2) THEN [c EXCEPT !.logpath = v.text]
    ELSE IF is(3) THEN set_hostname(c, "UNIX", v)
    ELSE IF is(4) THEN set_hostname(c, "INET", v)
    ELSE IF is(5) THEN [c EXCEPT !.port = v.text]
    ELSE IF is(6) THEN [c EXCEPT !.max_memory = read_memory_with_mul(v)]
    ELSE IF is(7) THEN [c EXCEPT !.max_request_size = read_memory_with_mul(v)]
    ELSE IF is(8) THEN [c EXCEPT !.tcp_backlog = capped(v.num)]
    ELSE IF is(9) THEN [c EXCEPT !.stats_pub_interval = read_time_with_mul(v)]
    ELSE c

config_set_default ==
    [loglevel |-> "DEBUG", logpath |-> "/tmp/sol.log",
     socket_family |-> "INET", hostname |-> "127.0.0.1", port |-> "1883",
     max_memory |-> read_memory_with_mul(Value(2, "gb", "")),
     max_request_size |-> read_memory_with_mul(Value(2, "mb", "")),
     tcp_backlog |-> SOMAXCONN,
     stats_pub_interval |-> read_time_with_mul(Value(10, "s", ""))]

-----------------------------------------------------------------------------
ConfigInit ==
    /\ phase = "options"
    /\ argv \in Commands
    /\ optind = 1
    /\ confpath = "/etc/sol/sol.conf"
    /\ debug = FALSE
    /\ line = 1
    /\ config = config_set_default

\* One option.  Any other than these four, -m and -n of the option string included,
\* prints the usage and exits.
getopt ==
    /\ phase = "options"
    /\ optind <= Len(argv)
    /\ LET o == argv[optind] IN
          /\ config' = IF o.opt = "a" THEN [config EXCEPT !.hostname = o.arg]
                       ELSE IF o.opt = "p" THEN [config EXCEPT !.port = o.arg]
                       ELSE config
          /\ confpath' = IF o.opt = "c" THEN o.arg ELSE confpath
          /\ debug' = (debug \/ o.opt = "v")
          /\ phase' = IF o.opt \in {"a", "p", "c", "v"} THEN phase ELSE "usage"
    /\ optind' = optind + 1
    /\ UNCHANGED <<argv, line>>

\* After the options: the log level, and fopen in config_load.  Without a file the
\* defaults stay.
config_load ==
    /\ phase = "options"
    /\ optind > Len(argv)
    /\ config' = [config EXCEPT !.loglevel = IF debug THEN "DEBUG" ELSE "WARNING"]
    /\ phase' = IF confpath \in DOMAIN Files THEN "lines" ELSE "listen"
    /\ UNCHANGED <<argv, optind, confpath, debug, line>>

\* One line.  Comments and blank lines have no key.  A line with a key and no value
\* is taken with an empty value: the test that should skip it looks at the start of
\* the line.
config_line ==
    /\ phase = "lines"
    /\ line <= Len(Files[confpath])
    /\ LET l == Files[confpath][line] IN
          config' = IF l.key = << >> THEN config
                    ELSE add_config_value(config, l.key, l.value)
    /\ line' = line + 1
    /\ UNCHANGED <<phase, argv, optind, confpath, debug>>

config_loaded ==
    /\ phase = "lines"
    /\ line > Len(Files[confpath])
    /\ phase' = "listen"
    /\ UNCHANGED <<argv, optind, confpath, debug, line, config>>

\* A Unix socket is bound to a path, whatever was there before.
create_and_bind_unix ==
    /\ phase = "listen"
    /\ config.socket_family = "UNIX"
    /\ phase' \in {"bound", "aborted"}
    /\ UNCHANGED <<argv, optind, confpath, debug, line, config>>

\* A TCP socket is bound to the first address of the host that can be bound.
create_and_bind_tcp ==
    /\ phase = "listen"
    /\ config.socket_family = "INET"
    /\ phase' \in {"bound", "aborted"}
    /\ UNCHANGED <<argv, optind, confpath, debug, line, config>>

\* The socket is made non-blocking and listens; then start_server registers it and
\* the timer with the event loop.
make_listen ==
    /\ phase = "bound"
    /\ phase' \in {"loop", "aborted"}
    /\ UNCHANGED <<argv, optind, confpath, debug, line, config>>

ConfigNext ==
    \/ getopt
    \/ config_load
    \/ config_line
    \/ config_loaded
    \/ create_and_bind_unix
    \/ create_and_bind_tcp
    \/ make_listen

-----------------------------------------------------------------------------
\* The lines of the file that is read.
FileLines == IF confpath \in DOMAIN Files THEN Files[confpath] ELSE << >>

\* Line l is about the i-th name: its key stands for it and for no name before it.
About(l, i) ==
    /\ l.key # << >>
    /\ IsPrefix(l.key, names[i])
    /\ \A j \in 1..(i - 1) : ~IsPrefix(l.key, names[j])

\* The option that is about the i-th name.
option(i) == IF i = 4 THEN "a" ELSE IF i = 5 THEN "p" ELSE "none"

\* The last word on the i-th name in the first m options and the first n lines: the
\* last line's, else the last option's, else the default.
SaidBy(m, n, i, default) ==
    LET opts == {k \in 1..m : argv[k].opt = option(i)}
        lines == {k \in 1..n : About(FileLines[k], i)}
    IN  IF lines # {} THEN FileLines[Max(lines)].value
        ELSE IF opts # {} THEN Value(0, "", argv[Max(opts)].arg)
        ELSE default

Said(i, default) == SaidBy(Len(argv), Len(FileLines), i, default)

\* What the defaults say on the i-th name.
Default(i) ==
    IF i = 2 THEN Value(0, "", "/tmp/sol.log")
    ELSE IF i = 3 THEN Value(0, "", "none")
    ELSE IF i = 4 THEN Value(0, "", "127.0.0.1")
    ELSE IF i = 5 THEN Value(0, "", "1883")
    ELSE IF i = 6 THEN Value(2, "gb", "")
    ELSE IF i = 7 THEN Value(2, "mb", "")
    ELSE IF i = 8 THEN Value(SOMAXCONN, "", "")
    ELSE Value(10, "s", "")

\* The setting of the i-th name is what v says, for a backlog within the limit.
AsSaid(i, v) ==
    /\ i = 2 => config.logpath = v.text
    /\ i = 5 => config.port = v.text
    /\ i = 6 => config.max_memory = read_memory_with_mul(v)
    /\ i = 7 => config.max_request_size = read_memory_with_mul(v)
    /\ i = 8 => config.tcp_backlog =
                   CHOOSE n \in {SOMAXCONN, v.num} : n <= SOMAXCONN /\ n <= v.num
    /\ i = 9 => config.stats_pub_interval = read_time_with_mul(v)

\* Line l gives a level.
GivesLevel(l) == About(l, 1) /\ \E level \in Levels : l.value.text \in Beginnings[level]

\* What is said on the log level: the last line that gives one, else -v.
LevelSaid ==
    LET lines == {k \in 1..Len(FileLines) : GivesLevel(FileLines[k])}
    IN  IF lines # {} THEN CHOOSE level \in Levels :
                              FileLines[Max(lines)].value.text \in Beginnings[level]
        ELSE IF \E k \in 1..Len(argv) : argv[k].opt = "v" THEN "DEBUG"
        ELSE "WARNING"

\* What the first n lines say on the family: a Unix socket, unless an address follows.
FamilySaidBy(n) ==
    IF \E k \in 1..n : /\ About(FileLines[k], 3)
                       /\ \A j \in (k + 1)..n : ~About(FileLines[j], 4)
    THEN "UNIX" ELSE "INET"

\* All of the lines about the i-th name have a value.
Complete(i) ==
    \A k \in 1..Len(FileLines) : About(FileLines[k], i) => FileLines[k].value.text # ""

\* When the broker listens, each of its settings is what the operator said last: a line
\* of the file over an option, a later line over an earlier one, and else the default,
\* with the backlog limited, as long as no line on it lacks its value (of such a line
\* the code says "Fallback to default", and takes it for 0 or an empty text).  A level that
\* is none of the three is not taken for a word on the level.
Settled ==
    phase \in {"listen", "bound", "loop"} =>
        /\ \A i \in {2, 5, 6, 7, 8, 9} : Complete(i) => AsSaid(i, Said(i, Default(i)))
        /\ Complete(1) => config.loglevel = LevelSaid
        /\ Complete(3) /\ Complete(4) => config.socket_family = FamilySaidBy(Len(FileLines))

\* The host name and the family, set by different statements and by two keys and an
\* option, belong together: a name that a unix_socket line gave is opened as a
\* path, every other one as an address.
FamilyFits ==
    phase \in {"listen", "bound", "loop"} =>
        /\ config.socket_family = "UNIX" =>
              config.hostname = Said(3, Value(0, "", "none")).text
        /\ config.socket_family = "INET" =>
              config.hostname = Said(4, Value(0, "", "127.0.0.1")).text
=============================================================================
