------------------------------ MODULE PprofPort ------------------------------
(***************************************************************************)
(* profiler/go_pprof.go, findListeningPortForPID: the port to scrape is    *)
(* read from the lines ss prints in the target's network namespace, which  *)
(* the containers of a pod share.  A line belongs to the PID when the PID  *)
(* occurs anywhere in its text.                                            *)
(***************************************************************************)
EXTENDS Integers, Sequences

CONSTANT MaxLines      \* bound on the lines of ss

ASSUME MaxLinesAssumption == MaxLines \in Nat

(***************************************************************************)
(* A line of ss, by what it is to the PID.  own: a listener of this PID.   *)
(* lookalike: a listener of another one, with the digits of the PID in a   *)
(* longer PID, a port or a count.  portless: a listener with them and no   *)
(* numeric port.  foreign: a listener without them.  idle: a socket in     *)
(* another state, of whomever.                                             *)
(***************************************************************************)
Lines == {"own", "lookalike", "portless", "foreign", "idle"}

VARIABLES
    ss,         \* the lines
    port        \* whose port is scraped: "unknown", "own", "other", "default"

portVars == <<ss, port>>

PortInit ==
    /\ ss \in UNION {[1..k -> Lines] : k \in 0..MaxLines}
    /\ port = "unknown"

Listens(line) == line # "idle"
Mentions(line) == line \in {"own", "lookalike", "portless"}
HasPort(line) == line # "portless"

Matches == {k \in DOMAIN ss : Listens(ss[k]) /\ Mentions(ss[k]) /\ HasPort(ss[k])}
First(lines) == CHOOSE k \in lines : \A l \in lines : k <= l

\* The first line that is left.
FindsPort ==
    /\ Matches # {}
    /\ port' = IF ss[First(Matches)] = "own" THEN "own" ELSE "other"
    /\ UNCHANGED ss

\* ss or the scanner fails, or no line is left: the default port is tried.
GuessesPort ==
    /\ port' = "default"
    /\ UNCHANGED ss
=============================================================================
