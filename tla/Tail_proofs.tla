---------------------------- MODULE Tail_proofs ----------------------------
(***************************************************************************)
(* Theorems about Tail, for any window, overlap, page and dedup set.       *)
(***************************************************************************)
EXTENDS Tail, TLAPS

(* The window starts at Since, or so far back that what is indexed in time *)
(* from now on falls into it.                                              *)
StartOK == start <= Since \/ start < end - Overlap

(* Whatever was indexed in time has been printed or is ahead of the start. *)
Covered ==
    \A i \in DOMAIN docs :
        ~docs[i].late /\ Since <= docs[i].ts => i \in printed \/ start <= docs[i].ts

ReadsOK == \A i \in DOMAIN docs : docs[i].read \in {0, Factor * docs[i].ts}

WindowInv ==
    /\ TypeOK /\ ReadsOK
    /\ end <= clock
    /\ Factor = 1 => StartOK
    /\ Factor = 1 /\ ~cut => Covered

-----------------------------------------------------------------------------
LEMMA ScaleMonotone ==
    ASSUME NEW f \in Nat, NEW t \in Nat, NEW m \in Nat, t <= m
    PROVE  f * t \in 0..(f * m)
<1>1. PICK d \in Nat : m = t + d
    BY SMT
<1>2. f * m = f * t + f * d
    BY <1>1, SMT
<1>3. f * d \in Nat /\ f * t \in Nat
    BY SMT
<1> QED BY <1>2, <1>3, SMT

LEMMA DocumentOK ==
    ASSUME NEW t \in 1..MaxClock, NEW parsed \in BOOLEAN, NEW a \in 0..MaxClock
    PROVE  /\ Document(t, parsed, a) \in Doc
           /\ Document(t, parsed, a).read \in {0, Factor * t}
           /\ Document(t, parsed, a).ts = t
           /\ ~Document(t, parsed, a).late => a - t <= Overlap
<1>1. Factor * t \in 0..(Factor * MaxClock)
    BY ScaleMonotone, TailAssumption
<1>2. 0 \in 0..(Factor * MaxClock)
    BY <1>1, TailAssumption
<1>3. (a - t > Overlap) \in BOOLEAN /\ (~(a - t > Overlap) => a - t <= Overlap)
    BY TailAssumption
<1> QED BY <1>1, <1>2, <1>3 DEF Document, Doc

LEMMA InitOK == Init => WindowInv
<1> SUFFICES ASSUME Init PROVE WindowInv
    OBVIOUS
<1>1. PICK n \in 0..MaxDocs : \E old \in [1..n -> 1..Start], parsed \in [1..n -> BOOLEAN] :
          docs = [i \in 1..n |-> Document(old[i], parsed[i], old[i])]
    BY DEF Init
<1>2. PICK old \in [1..n -> 1..Start], parsed \in [1..n -> BOOLEAN] :
          docs = [i \in 1..n |-> Document(old[i], parsed[i], old[i])]
    BY <1>1
<1>3. ASSUME NEW i \in 1..n
      PROVE  docs[i] \in Doc /\ docs[i].read \in {0, Factor * docs[i].ts}
    <2>1. old[i] \in 1..MaxClock /\ old[i] \in 0..MaxClock /\ parsed[i] \in BOOLEAN
        BY TailAssumption
    <2> QED BY <2>1, <1>2, DocumentOK
<1>4. docs \in Seq(Doc) /\ Len(docs) = n /\ DOMAIN docs = 1..n
    BY <1>2, <1>3
<1>5. TypeOK
    <2>1. clock \in 0..MaxClock /\ start \in Int /\ end \in 0..MaxClock
        BY TailAssumption DEF Init
    <2>2. where \in {"clock", "search", "wait", "done"}
        BY DEF Init
    <2>3. /\ printed \subseteq DOMAIN docs /\ seen \subseteq printed
          /\ cut \in BOOLEAN /\ interrupted \in BOOLEAN
        BY DEF Init
    <2>4. Len(docs) <= MaxDocs
        BY <1>4, TailAssumption
    <2> QED BY <1>4, <2>1, <2>2, <2>3, <2>4 DEF TypeOK
<1>6. ReadsOK
    BY <1>3, <1>4 DEF ReadsOK
<1>7. end <= clock /\ StartOK /\ Covered
    BY TailAssumption DEF Init, StartOK, Covered
<1> QED BY <1>5, <1>6, <1>7 DEF WindowInv

LEMMA PassOK == WindowInv /\ Pass => WindowInv'
<1> SUFFICES ASSUME WindowInv, Pass PROVE WindowInv'
    OBVIOUS
<1>1. UNCHANGED <<docs, where, start, end, seen, printed, cut, interrupted>>
    BY DEF Pass, tail, output
<1>2. clock' \in 0..MaxClock /\ end' <= clock'
    BY <1>1, TailAssumption DEF Pass, WindowInv, TypeOK
<1> QED BY <1>1, <1>2 DEF WindowInv, TypeOK, ReadsOK, StartOK, Covered

LEMMA InterruptOK == WindowInv /\ Interrupt => WindowInv'
BY DEF WindowInv, TypeOK, ReadsOK, StartOK, Covered, Interrupt, tail, output

(* A document that is in time is ahead of the start when it is indexed.    *)
LEMMA IndexOK == WindowInv /\ Index => WindowInv'
<1> SUFFICES ASSUME WindowInv, Index PROVE WindowInv'
    OBVIOUS
<1> USE TailAssumption
<1>1. UNCHANGED <<clock, where, start, end, seen, printed, cut, interrupted>>
    BY DEF Index, tail, output
<1>2. PICK t \in 1..MaxClock, parsed \in BOOLEAN : docs' = Append(docs, Document(t, parsed, clock))
    BY DEF Index
<1> DEFINE new == Document(t, parsed, clock)
<1>3. clock \in 0..MaxClock /\ docs \in Seq(Doc)
    BY DEF WindowInv, TypeOK
<1>4. new \in Doc /\ new.read \in {0, Factor * t} /\ new.ts = t /\ (~new.late => clock - t <= Overlap)
    BY <1>3, DocumentOK
<1> HIDE DEF new
<1>5. /\ docs' \in Seq(Doc) /\ Len(docs') = Len(docs) + 1 /\ DOMAIN docs \subseteq DOMAIN docs'
      /\ \A i \in DOMAIN docs' : IF i \in DOMAIN docs THEN docs'[i] = docs[i] ELSE docs'[i] = new
    BY <1>2, <1>3, <1>4 DEF new
<1>6. TypeOK'
    <2>1. Len(docs') <= MaxDocs
        BY <1>3, <1>5 DEF Index
    <2> QED BY <1>1, <1>5, <2>1 DEF WindowInv, TypeOK
<1>7. ReadsOK'
    BY <1>4, <1>5 DEF WindowInv, ReadsOK
<1>8. (Factor = 1 => StartOK)' /\ (end <= clock)'
    BY <1>1 DEF WindowInv, StartOK
<1>9. ASSUME Factor = 1, ~cut PROVE Covered'
    <2>1. Covered /\ StartOK /\ end <= clock
        BY <1>9 DEF WindowInv
    <2>2. ASSUME NEW i \in DOMAIN docs', ~docs'[i].late, Since <= docs'[i].ts
          PROVE  i \in printed' \/ start' <= docs'[i].ts
        <3>1. CASE i \in DOMAIN docs
            BY <1>1, <1>5, <2>1, <2>2, <3>1 DEF Covered
        <3>2. CASE i \notin DOMAIN docs
            <4>1. Since <= t /\ clock - t <= Overlap /\ docs'[i].ts = t
                BY <1>4, <1>5, <2>2, <3>2
            <4>2. start \in Int /\ end \in Nat /\ clock \in Nat
                BY DEF WindowInv, TypeOK
            <4>3. start <= t
                BY <2>1, <4>1, <4>2 DEF StartOK
            <4> QED BY <1>1, <4>1, <4>3
        <3> QED BY <3>1, <3>2
    <2> QED BY <2>2 DEF Covered
<1> QED BY <1>1, <1>6, <1>7, <1>8, <1>9 DEF WindowInv

LEMMA ReadClockOK == WindowInv /\ ReadClock => WindowInv'
<1> SUFFICES ASSUME WindowInv, ReadClock PROVE WindowInv'
    OBVIOUS
<1>1. UNCHANGED <<clock, docs, start, seen, printed, cut, interrupted>>
    BY DEF ReadClock, output
<1>2. where' = "search" /\ end' = clock
    BY DEF ReadClock, Now
<1>3. TypeOK'
    BY <1>1, <1>2 DEF WindowInv, TypeOK
<1>4. ReadsOK' /\ (Factor = 1 /\ ~cut => Covered)'
    BY <1>1 DEF WindowInv, ReadsOK, Covered
<1>5. (end <= clock)' /\ (Factor = 1 => StartOK)'
    BY <1>1, <1>2, TailAssumption DEF WindowInv, TypeOK, StartOK
<1> QED BY <1>3, <1>4, <1>5 DEF WindowInv

-----------------------------------------------------------------------------
(* What a search does: everything that matches, unless the page is cut, is *)
(* printed, and the window moves to less than Overlap before its end.      *)
LEMMA SearchPrints ==
    WindowInv /\ Search /\ ~cut' => \A i \in Matching : i \in printed'
<1> SUFFICES ASSUME WindowInv, Search, ~cut', NEW i \in Matching PROVE i \in printed'
    OBVIOUS
<1>1. Page = Matching
    BY DEF Search
<1>2. printed' = printed \cup (Page \ seen) /\ seen \subseteq printed
    BY DEF Search, Fresh, WindowInv, TypeOK
<1> QED BY <1>1, <1>2

LEMMA SearchMoves ==
    WindowInv /\ Search /\ Factor = 1 =>
        start' = start \/ (start' \in Int /\ start' < end - Overlap)
<1> SUFFICES ASSUME WindowInv, Search, Factor = 1, start' # start
             PROVE  start' \in Int /\ start' < end - Overlap
    OBVIOUS
<1>1. PICK newest \in {0} \cup {docs[d].read : d \in Fresh} :
          start' = IF newest > 0 THEN newest - Overlap ELSE start
    BY DEF Search, Moved
<1>2. newest # 0
    BY <1>1
<1>3. PICK d \in Fresh : newest = docs[d].read
    BY <1>1, <1>2
<1>4. d \in DOMAIN docs /\ docs[d].ts < end
    BY <1>3 DEF Fresh, Page, Matching
<1>5. docs[d] \in Doc /\ docs[d].read \in {0, Factor * docs[d].ts} /\ end \in Nat
    BY <1>4, TailAssumption DEF WindowInv, TypeOK, ReadsOK
<1>6. docs[d].ts \in Nat
    BY <1>5, TailAssumption DEF Doc
<1>7. newest = docs[d].ts
    BY <1>2, <1>3, <1>5, <1>6
<1> QED BY <1>1, <1>4, <1>5, <1>6, <1>7, TailAssumption

LEMMA SearchType == WindowInv /\ Search => TypeOK'
<1> SUFFICES ASSUME WindowInv, Search PROVE TypeOK'
    OBVIOUS
<1>1. TypeOK
    BY DEF WindowInv
<1>2. Fresh \subseteq DOMAIN docs
    BY DEF Fresh, Page, Matching
<1>3. UNCHANGED <<clock, docs, end, interrupted>> /\ where' = "wait"
    BY DEF Search
<1>4. start' \in Int
    <2>1. PICK newest \in {0} \cup {docs[d].read : d \in Fresh} :
              start' = IF newest > 0 THEN newest - Overlap ELSE start
        BY DEF Search, Moved
    <2>2. newest \in Int
        <3>1. CASE newest = 0
            BY <3>1
        <3>2. CASE newest # 0
            <4>1. PICK d \in Fresh : newest = docs[d].read
                BY <2>1, <3>2
            <4>2. docs[d] \in Doc
                BY <1>1, <1>2 DEF TypeOK
            <4>3. Factor * MaxClock \in Int
                BY TailAssumption
            <4> QED BY <4>1, <4>2, <4>3 DEF Doc
        <3> QED BY <3>1, <3>2
    <2> QED BY <1>1, <2>1, <2>2, TailAssumption DEF TypeOK
<1>5. seen' \subseteq seen \cup Fresh
    BY DEF Search, Kept
<1>6. printed' = printed \cup Fresh
    BY DEF Search
<1>7. cut' \in BOOLEAN
    BY <1>1 DEF Search, TypeOK
<1> QED BY <1>1, <1>2, <1>3, <1>4, <1>5, <1>6, <1>7 DEF TypeOK

LEMMA SearchOK == WindowInv /\ Search => WindowInv'
<1> SUFFICES ASSUME WindowInv, Search PROVE WindowInv'
    OBVIOUS
<1>1. UNCHANGED <<clock, docs, end>> /\ printed \subseteq printed' /\ (cut => cut')
    BY DEF Search
<1>2. TypeOK' /\ ReadsOK' /\ (end <= clock)'
    BY <1>1, SearchType DEF WindowInv, ReadsOK
<1>3. (Factor = 1 => StartOK)'
    BY <1>1, SearchMoves DEF WindowInv, StartOK
<1>4. ASSUME Factor = 1, ~cut' PROVE Covered'
    <2>1. Covered
        BY <1>1, <1>4 DEF WindowInv
    <2>2. ASSUME NEW i \in DOMAIN docs, ~docs[i].late, Since <= docs[i].ts, i \notin printed'
          PROVE  start' <= docs[i].ts
        <3>1. start <= docs[i].ts
            BY <1>1, <2>1, <2>2 DEF Covered
        <3>2. i \notin Matching
            BY <1>4, <2>2, SearchPrints
        <3>3. ~(docs[i].ts < end)
            BY <2>2, <3>1, <3>2 DEF Matching
        <3>4. docs[i].ts \in Nat /\ end \in Nat /\ start \in Int
            <4>1. docs[i] \in Doc
                BY <2>2 DEF WindowInv, TypeOK
            <4> QED BY <4>1, TailAssumption DEF WindowInv, TypeOK, Doc
        <3> QED BY <1>4, <3>1, <3>3, <3>4, SearchMoves, TailAssumption
    <2> QED BY <1>1, <2>2 DEF Covered
<1> QED BY <1>2, <1>3, <1>4 DEF WindowInv

LEMMA OtherOK == WindowInv /\ (SearchFails \/ Tick \/ Stop \/ UNCHANGED vars) => WindowInv'
<1> SUFFICES ASSUME WindowInv, SearchFails \/ Tick \/ Stop \/ UNCHANGED vars PROVE WindowInv'
    OBVIOUS
<1>1. UNCHANGED <<clock, docs, start, end, seen, printed, cut, interrupted>>
    BY DEF SearchFails, Tick, Stop, vars, tail, output
<1>2. where' \in {"clock", "search", "wait", "done"}
    BY DEF SearchFails, Tick, Stop, vars, tail, WindowInv, TypeOK
<1>3. TypeOK'
    BY <1>1, <1>2 DEF WindowInv, TypeOK
<1> QED BY <1>1, <1>3 DEF WindowInv, ReadsOK, StartOK, Covered

LEMMA Step == WindowInv /\ [Next]_vars => WindowInv'
BY PassOK, InterruptOK, IndexOK, ReadClockOK, SearchOK, OtherOK DEF Next, Poll

LEMMA WindowCorrect == Spec => []WindowInv
<1>1. Init => WindowInv
    BY InitOK
<1>2. WindowInv /\ [Next]_vars => WindowInv'
    BY Step
<1> QED BY <1>1, <1>2, PTL DEF Spec

(* The set of printed lines, the dedup set and the page are sets of        *)
(* documents of the index, and what is remembered has been printed.        *)
THEOREM TypeCorrect == Spec => []TypeOK
<1>1. WindowInv => TypeOK
    BY DEF WindowInv
<1> QED BY <1>1, WindowCorrect, PTL

(* Whatever the overlap, the page and the bound of the dedup set are, and  *)
(* however searches, forgetting and indexing interleave, polling misses no *)
(* line that came in time, while a page holds what a search finds.         *)
THEOREM NoneMissedCorrect == Spec => NoneMissed
<1>1. WindowInv /\ [Next]_vars => [Catches]_vars
    <2> SUFFICES ASSUME WindowInv, [Next]_vars PROVE Catches
        OBVIOUS
    <2> SUFFICES ASSUME Factor = 1, Polled, ~cut', NEW i \in DOMAIN docs,
                        ~docs[i].late, Since <= docs[i].ts, docs[i].ts < end
                 PROVE  i \in printed'
        BY DEF Catches
    <2>1. Search
        BY DEF Polled, Next, Poll, Pass, Index, Interrupt, ReadClock, SearchFails, Tick, Stop, vars, tail
    <2>2. Covered /\ printed \subseteq printed'
        BY <2>1 DEF WindowInv, Search
    <2>3. CASE i \in printed
        BY <2>2, <2>3
    <2>4. CASE i \notin printed
        BY <2>1, <2>2, <2>4, SearchPrints DEF Covered, Matching
    <2> QED BY <2>3, <2>4
<1> QED BY <1>1, WindowCorrect, PTL DEF Spec, NoneMissed
=============================================================================
