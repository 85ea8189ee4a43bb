-------------------------------- MODULE Tail --------------------------------
(***************************************************************************)
(* qw tail (internal/cli/search.go): it polls the index for a window of    *)
(* time, prints the hits it has not seen and moves the window.  Documents  *)
(* are indexed all the while, with timestamps in any order, and may be     *)
(* late.  A document stands for its text: tail tells documents apart by    *)
(* their text and prints documents with one text as one.                   *)
(*                                                                         *)
(* Operators called Fault... are seeded bugs, no part of the               *)
(* specification.                                                          *)
(***************************************************************************)
EXTENDS Integers, Sequences, FiniteSets

CONSTANTS
    Since,       \* what --since or --from resolves to, in seconds
    Start,       \* the clock when tail is started
    Overlap,     \* overlap: 5
    Factor,      \* what parseHitTS makes of a second: 1, or 1000 if the
                 \* field is written in microseconds, 10^6 in nanoseconds
    PageSize,    \* MaxHits: 500
    MaxSeen,     \* bound on the dedup set: 5000
    MaxClock,    \* bound on the clock
    MaxDocs      \* bound on the documents indexed

ASSUME TailAssumption ==
    /\ Since \in Nat /\ Start \in 0..MaxClock /\ MaxClock \in Nat /\ MaxDocs \in Nat
    /\ Overlap \in Nat /\ Factor \in Nat \ {0} /\ PageSize \in Nat \ {0} /\ MaxSeen \in Nat

VARIABLES
    clock,       \* Unix time, in seconds
    docs,        \* the index, in the order it was filled
    where,       \* where runTail is
    start, end,  \* StartTimestamp and EndTimestamp of the search
    seen,        \* the dedup set
    printed,     \* the documents that have been printed
    cut,         \* history: there were more hits than a page
    interrupted  \* Ctrl-C or SIGTERM: the context is cancelled

output == <<seen, printed, cut>>
tail == <<where, start, end, output>>
vars == <<clock, docs, tail, interrupted>>

(* The time of a document, what parseHitTS reads, and whether it was       *)
(* indexed more than Overlap after its time.                               *)
Doc == [ts : 1..MaxClock, read : 0..(Factor * MaxClock), late : BOOLEAN]

TypeOK ==
    /\ clock \in 0..MaxClock
    /\ docs \in Seq(Doc) /\ Len(docs) <= MaxDocs
    /\ where \in {"clock", "search", "wait", "done"}
    /\ start \in Int /\ end \in 0..MaxClock
    /\ printed \subseteq DOMAIN docs /\ seen \subseteq printed
    /\ cut \in BOOLEAN /\ interrupted \in BOOLEAN

(* parseHitTS takes any number over 10^12 for milliseconds, and makes 0 of *)
(* a timestamp that is missing or has no format it knows.                  *)
Document(t, parsed, at) ==
    [ts |-> t, read |-> IF parsed THEN Factor * t ELSE 0, late |-> at - t > Overlap]

(* What is in the index already was indexed in time.                       *)
Init ==
    /\ clock = Start
    /\ \E n \in 0..MaxDocs :
        \E old \in [1..n -> 1..Start], parsed \in [1..n -> BOOLEAN] :
            /\ \A i, j \in 1..n : i < j => old[i] <= old[j]
            /\ docs = [i \in 1..n |-> Document(old[i], parsed[i], old[i])]
    /\ where = "clock" /\ start = Since /\ end = 0
    /\ seen = {} /\ printed = {}
    /\ cut = FALSE /\ interrupted = FALSE

-----------------------------------------------------------------------------
Pass ==
    /\ clock < MaxClock
    /\ clock' = clock + 1
    /\ UNCHANGED <<docs, tail, interrupted>>

Index ==
    /\ Len(docs) < MaxDocs
    /\ \E t \in 1..MaxClock, parsed \in BOOLEAN :
        docs' = Append(docs, Document(t, parsed, clock))
    /\ UNCHANGED <<clock, tail, interrupted>>

Interrupt ==
    /\ ~interrupted /\ interrupted' = TRUE
    /\ UNCHANGED <<clock, docs, tail>>

FaultNow == clock + 1
Now == clock

ReadClock ==
    /\ where = "clock"
    /\ where' = "search" /\ end' = Now
    /\ UNCHANGED <<clock, docs, start, output, interrupted>>

(* What Quickwit finds: the end of a window is no part of it, and of more  *)
(* than PageSize hits the newest are returned.                             *)
Matching == {d \in DOMAIN docs : start <= docs[d].ts /\ docs[d].ts < end}
Newer(d) ==
    {e \in Matching : docs[e].ts > docs[d].ts \/ (docs[e].ts = docs[d].ts /\ e > d)}
Page == {d \in Matching : Cardinality(Newer(d)) < PageSize}

FaultNoOverlap(newest) == IF newest > 0 THEN newest ELSE start
Moved(newest) == IF newest > 0 THEN newest - Overlap ELSE start

FaultForgetful(ids) == IF Cardinality(ids) >= PageSize THEN {} ELSE ids
Kept(ids) == IF Cardinality(ids) > MaxSeen THEN {} ELSE ids

FaultDetached == TRUE
Answered == ~interrupted     \* a request ends with its context

Fresh == Page \ seen

(* The reply: what is new is printed, and the window moves to the latest   *)
(* of what is new.  Nothing moves if nothing is new, or has no time.       *)
Search ==
    LET times == {0} \cup {docs[d].read : d \in Fresh} IN
    /\ where = "search" /\ Answered
    /\ printed' = printed \cup Fresh
    /\ \E newest \in times :
        /\ \A t \in times : t <= newest
        /\ start' = Moved(newest)
    /\ seen' = Kept(seen \cup Fresh)
    /\ cut' = (cut \/ Page # Matching)
    /\ where' = "wait"
    /\ UNCHANGED <<clock, docs, end, interrupted>>

(* Any error ends the command, that of a cancelled request too.            *)
SearchFails ==
    /\ where = "search"
    /\ where' = "done"
    /\ UNCHANGED <<clock, docs, start, end, output, interrupted>>

(* The select: the ticker, or the context.                                 *)
Tick ==
    /\ where = "wait" /\ where' = "clock"
    /\ UNCHANGED <<clock, docs, start, end, output, interrupted>>

Stop ==
    /\ where = "wait" /\ interrupted
    /\ where' = "done"
    /\ UNCHANGED <<clock, docs, start, end, output, interrupted>>

Poll == ReadClock \/ Search \/ SearchFails \/ Tick \/ Stop

Next == Pass \/ Index \/ Interrupt \/ Poll

Spec == Init /\ [][Next]_vars

(* The loop goes on: requests are answered or fail, and the ticker ticks.  *)
(* Which case of a select is taken, and whether a request fails, is open.  *)
FairSpec == Spec /\ WF_vars(Poll)

-----------------------------------------------------------------------------
Polled == where = "search" /\ where' = "wait"

Catches ==
    Factor = 1 /\ Polled /\ ~cut' => \A i \in DOMAIN docs :
        ~docs[i].late /\ Since <= docs[i].ts /\ docs[i].ts < end => i \in printed'

(* "seconds of window overlap to catch stragglers": no document that is in *)
(* the index at most Overlap after its time is missed by the polls, unless *)
(* there were more hits than a page.  The window is moved to what was new, *)
(* backwards and forwards, and documents are indexed between the reading   *)
(* of the clock and the search.  Of a field in microseconds or nanoseconds *)
(* it is not true: the window moves to a distant future.                   *)
NoneMissed == [][Catches]_vars

(* The dedup set is dropped, and the window moves back as well as forward, *)
(* yet tail never prints the same lines round and round: on an index that  *)
(* gets nothing new it falls silent, and it ends on Ctrl-C, though select  *)
(* may prefer the ticker to the context.                                   *)
Settles ==
    /\ <>[][Polled => Fresh = {}]_vars
    /\ interrupted ~> where = "done"

=============================================================================
