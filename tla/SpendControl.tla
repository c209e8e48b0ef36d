---------------------------- MODULE SpendControl ----------------------------
(***************************************************************************)
(* What the media pipeline promises about paid work (Laws 37 and 43): a job  *)
(* is sent at most once, only with money set aside for it, and the money     *)
(* stays set aside until it is known how the job ended.                      *)
(***************************************************************************)
EXTENDS Naturals

CONSTANT Jobs

VARIABLES backed,   \* the jobs with money reserved for them or accounted to them
          sent,     \* how often each job was sent
          known     \* the jobs whose outcome is settled at the provider

Init ==
    /\ backed = {}
    /\ sent = [j \in Jobs |-> 0]
    /\ known = {}

Back(j) == backed' = backed \cup {j} /\ UNCHANGED <<sent, known>>

Send(j) ==
    /\ j \in backed
    /\ sent[j] = 0
    /\ sent' = [sent EXCEPT ![j] = 1]
    /\ UNCHANGED <<backed, known>>

End(j) ==
    /\ sent[j] = 1
    /\ known' = known \cup {j}
    /\ UNCHANGED <<backed, sent>>

Free(j) ==
    /\ sent[j] = 0 \/ j \in known
    /\ backed' = backed \ {j}
    /\ UNCHANGED <<sent, known>>

Next == \E j \in Jobs : Back(j) \/ Send(j) \/ End(j) \/ Free(j)

Spec == Init /\ [][Next]_<<backed, sent, known>>

=============================================================================
