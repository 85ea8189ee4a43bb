-------------------------- MODULE ContextRegister --------------------------
(***************************************************************************)
(* What a command of qw promises of the context file, whatever it does to  *)
(* get there: while commands run one at a time, the file is a register     *)
(* that each of them changes in its own context only, and in one step.  Of *)
(* commands that overlap nothing is promised here.                         *)
(***************************************************************************)
CONSTANTS Names, Auth, None, Absent

VARIABLES
    file,        \* what a command finds in config.yaml
    about,       \* the context that the running command is about, or None
    alone        \* no two commands have overlapped yet

registerVars == <<file, about, alone>>

Register == [current : Names \cup {None}, contexts : [Names -> Auth \cup {Absent}]]

RegisterInit ==
    /\ file = [current |-> None, contexts |-> [n \in Names |-> Absent]]
    /\ about = None /\ alone = TRUE

BeginCommand(n) ==
    /\ alone /\ about = None
    /\ about' = n
    /\ UNCHANGED <<file, alone>>

(* Only context n may differ afterwards.  It may have become the current   *)
(* one; if it was and is deleted, there is none.                           *)
Change(n) ==
    /\ alone /\ about = n
    /\ file' \in Register
    /\ \A m \in Names \ {n} : file'.contexts[m] = file.contexts[m]
    /\ \/ file'.current \in {file.current, n} /\ file'.contexts[n] # Absent
       \/ file'.current = file.current /\ file.current # n
       \/ file'.current = None /\ file.current = n /\ file'.contexts[n] = Absent
    /\ about' \in {n, None} /\ UNCHANGED alone

EndCommand ==
    /\ alone /\ about # None
    /\ about' = None
    /\ UNCHANGED <<file, alone>>

Overlap == alone' = FALSE

RegisterNext == (\E n \in Names : BeginCommand(n) \/ Change(n)) \/ EndCommand \/ Overlap

RegisterSpec == RegisterInit /\ [][RegisterNext]_registerVars

-----------------------------------------------------------------------------
(* What a reader of config.yaml gets as long as commands do not overlap: a *)
(* whole config, whose current context is one of those in it.              *)
FileGood ==
    alone => /\ file \in Register
             /\ file.current # None => file.contexts[file.current] # Absent
=============================================================================
