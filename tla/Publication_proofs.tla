-------------------------- MODULE Publication_proofs --------------------------
(***************************************************************************)
(* What a ruleset licenses was approved by a signature, for any register,    *)
(* people and guidelines. An approval enters the register with the signature *)
(* that approves it and signatures only gain; from there it is copied: into  *)
(* a publish in flight, a minor in flight, the watcher's transaction and the *)
(* rulesets.                                                                 *)
(***************************************************************************)
EXTENDS Publication, Lemmas_proofs

Approves(s, c) == Made(s) /\ c \in signature[s].approves
WasApproved == {c \in Claims : \E s \in Ids : Approves(s, c)}

ClaimShape ==
    /\ DOMAIN claim = Claims
    /\ \A c \in Claims : DOMAIN claim[c] = {"status", "words", "sig"}

SignatureShape ==
    /\ DOMAIN signature = Ids
    /\ \A s \in Ids : DOMAIN signature[s] = {"signer", "covers", "approves", "words", "voided", "lapsed"}

RegisterHonest == \A c \in Claims : claim[c].status = "approved" => c \in WasApproved

RulesetsHonest == \A r \in rulesets : r.licensed \subseteq WasApproved

PressHonest ==
    /\ DOMAIN press = Publishers
    /\ \A p \in Publishers : press[p].licensed \subseteq WasApproved

MintsHonest ==
    /\ DOMAIN inbox = Reviewers
    /\ \A v \in Reviewers : \A r \in inbox[v].mint : r.licensed \subseteq WasApproved

RowShape == {"status", "words", "sig"}
WrittenShape == {"claims", "rows", "voided", "minted", "status"}

\* What a transaction has written approves and licenses nothing new.
HonestWork(work) ==
    /\ DOMAIN work = WrittenShape
    /\ \A c \in Claims : /\ DOMAIN work.rows[c] = RowShape
                         /\ work.rows[c].status = "approved" => c \in WasApproved
    /\ \A r \in work.minted : r.licensed \subseteq WasApproved

IInv ==
    /\ ClaimShape /\ SignatureShape
    /\ RegisterHonest /\ RulesetsHonest /\ PressHonest /\ MintsHonest
    /\ HonestWork(flushed)

-----------------------------------------------------------------------------

(* Signatures only gain                                                      *)

\* Voiding leaves who approved what.
LEMMA VoidGains ==
    ASSUME SignatureShape, NEW S, Void(S)
    PROVE  SignatureShape' /\ WasApproved' = WasApproved
<1>1. ASSUME NEW s \in Ids
      PROVE  /\ DOMAIN signature'[s] = DOMAIN signature[s]
             /\ signature'[s].signer = signature[s].signer
             /\ signature'[s].approves = signature[s].approves
    BY DEF Void, SignatureShape
<1>2. DOMAIN signature' = Ids
    BY DEF Void
<1> QED
    BY <1>1, <1>2 DEF SignatureShape, WasApproved, Approves, Made

\* So does the passing of an expiry.
LEMMA LapseGains ==
    ASSUME SignatureShape, NEW s \in Ids, Lapse(s)
    PROVE  SignatureShape' /\ WasApproved' = WasApproved
<1>1. ASSUME NEW t \in Ids
      PROVE  /\ DOMAIN signature'[t] = DOMAIN signature[t]
             /\ signature'[t].signer = signature[t].signer
             /\ signature'[t].approves = signature[t].approves
    BY DEF Lapse, SignatureShape
<1>2. DOMAIN signature' = Ids
    BY DEF Lapse, SignatureShape
<1> QED
    BY <1>1, <1>2 DEF SignatureShape, WasApproved, Approves, Made

\* A new signature takes a number nobody has.
LEMMA SignGains ==
    ASSUME SignatureShape, NEW a \in Actors, Sign(a)
    PROVE  /\ SignatureShape'
           /\ WasApproved \subseteq WasApproved'
           /\ desk[a].yes \cap Claims \subseteq WasApproved'
<1>1. PICK s \in Ids :
          /\ ~Made(s)
          /\ signature' = [signature EXCEPT ![s] =
                [signer |-> a, covers |-> desk[a].about, approves |-> desk[a].yes,
                 words |-> Wording(desk[a].about, desk[a].saw), voided |-> FALSE, lapsed |-> FALSE]]
    BY DEF Sign, NoDecision
<1>2. signature'[s].signer = a /\ signature'[s].approves = desk[a].yes
    BY <1>1 DEF SignatureShape
<1>3. \A t \in Ids \ {s} : signature'[t] = signature[t]
    BY <1>1 DEF SignatureShape
<1>4. SignatureShape'
    BY <1>1 DEF SignatureShape
<1>5. desk[a].yes \cap Claims \subseteq WasApproved'
    BY <1>2, RegisterAssumption DEF WasApproved, Approves, Made
<1>6. WasApproved \subseteq WasApproved'
    BY <1>1, <1>3 DEF WasApproved, Approves, Made
<1> QED
    BY <1>4, <1>5, <1>6

-----------------------------------------------------------------------------

(* Writes of the register                                                    *)

\* Sending claims back approves none.
LEMMA SentBackApprovesNone ==
    ASSUME ClaimShape, NEW C, NEW saw, claim' = SentBack(C, saw)
    PROVE  /\ ClaimShape'
           /\ \A c \in Claims : claim'[c].status = "approved" => claim[c].status = "approved"
<1>1. ASSUME NEW c \in Claims
      PROVE  /\ DOMAIN claim'[c] = DOMAIN claim[c]
             /\ claim'[c].status \in {claim[c].status, "pending_signoff"}
    BY DEF SentBack, WriteRow, Column, ClaimShape
<1>2. DOMAIN claim' = Claims
    BY DEF SentBack
<1> QED
    BY <1>1, <1>2 DEF ClaimShape

\* Neither does a harvest.
LEMMA HarvestApprovesNone ==
    ASSUME ClaimShape, NEW a \in Actors, Harvest(a)
    PROVE  /\ ClaimShape'
           /\ \A c \in Claims : claim'[c].status = "approved" => claim[c].status = "approved"
<1>1. PICK verdict \in Reharvestable, moved \in BOOLEAN :
          claim' = [c \in Claims |-> IF c \in desk[a].about THEN Harvested(c, desk[a].saw, verdict, moved)
                                     ELSE claim[c]]
    BY DEF Harvest
<1>2. ASSUME NEW c \in Claims
      PROVE  /\ DOMAIN claim'[c] = DOMAIN claim[c]
             /\ claim'[c].status \in {claim[c].status, verdict}
    BY <1>1 DEF Harvested, Column, ClaimShape
<1>3. DOMAIN claim' = Claims
    BY <1>1
<1>4. verdict # "approved"
    BY DEF Reharvestable
<1> QED
    BY <1>2, <1>3, <1>4 DEF ClaimShape

\* An edit writes no status.
LEMMA EditApprovesNone ==
    ASSUME ClaimShape, NEW a \in Actors, Edit(a)
    PROVE  /\ ClaimShape'
           /\ \A c \in Claims : claim'[c].status = "approved" => claim[c].status = "approved"
<1>1. ASSUME NEW c \in Claims
      PROVE  DOMAIN claim'[c] = DOMAIN claim[c] /\ claim'[c].status = claim[c].status
    BY DEF Edit, ClaimShape
<1>2. DOMAIN claim' = Claims
    BY DEF Edit
<1> QED
    BY <1>1, <1>2 DEF ClaimShape

\* A change of the matrix sends back what its preview named.
LEMMA MatrixApprovesNone ==
    ASSUME ClaimShape, NEW a \in Actors, PutMatrix(a)
    PROVE  /\ ClaimShape'
           /\ \A c \in Claims : claim'[c].status = "approved" => claim[c].status = "approved"
<1>1. ASSUME NEW c \in Claims
      PROVE  /\ DOMAIN claim'[c] = DOMAIN claim[c]
             /\ claim'[c].status \in {claim[c].status, "pending_signoff"}
    BY DEF PutMatrix, ClaimShape
<1>2. DOMAIN claim' = Claims
    BY DEF PutMatrix
<1> QED
    BY <1>1, <1>2 DEF ClaimShape

\* A decision approves what its signature approves.
LEMMA SignApprovesDecided ==
    ASSUME ClaimShape, NEW a \in Actors, Sign(a)
    PROVE  /\ ClaimShape'
           /\ \A c \in Claims : claim'[c].status = "approved" => claim[c].status = "approved" \/ c \in desk[a].yes
<1>1. PICK s \in Ids : claim' = Decided(desk[a], s)
    BY DEF Sign
<1>2. ASSUME NEW c \in Claims
      PROVE  /\ DOMAIN claim'[c] = DOMAIN claim[c]
             /\ claim'[c].status \in {claim[c].status, "rejected"} \/ c \in desk[a].yes
    BY <1>1 DEF Decided, WriteRow, Column, ClaimShape
<1>3. DOMAIN claim' = Claims
    BY <1>1 DEF Decided
<1> QED
    BY <1>2, <1>3 DEF ClaimShape

-----------------------------------------------------------------------------

(* The invariant                                                             *)

\* What a compile finds licensed was approved.
LEMMA LicensedHonest == RegisterHonest => Licensed \subseteq WasApproved
BY DEF RegisterHonest, Licensed

\* The rest of the invariant survives a step that leaves what was compiled.
LEMMA CopiesKept ==
    ASSUME RulesetsHonest, PressHonest, MintsHonest, HonestWork(flushed),
           WasApproved \subseteq WasApproved', UNCHANGED <<rulesets, press, flushed, inbox>>
    PROVE  RulesetsHonest' /\ PressHonest' /\ MintsHonest' /\ HonestWork(flushed)'
BY DEF RulesetsHonest, PressHonest, MintsHonest, HonestWork

\* A step that writes the register keeps the invariant if it approves only what
\* was approved.
LEMMA RegisterStep ==
    ASSUME IInv, ClaimShape', SignatureShape', WasApproved \subseteq WasApproved',
           \A c \in Claims : claim'[c].status = "approved" => claim[c].status = "approved" \/ c \in WasApproved',
           Unread
    PROVE  IInv'
<1>1. RegisterHonest'
    BY DEF IInv, RegisterHonest
<1>2. RulesetsHonest' /\ PressHonest' /\ MintsHonest' /\ HonestWork(flushed)'
    BY CopiesKept DEF IInv, Unread, books, policy
<1> QED
    BY <1>1, <1>2 DEF IInv

\* A step that leaves the claims and the signatures leaves the register honest.
LEMMA RegisterStays ==
    ASSUME IInv, UNCHANGED <<claim, signature>>
    PROVE  ClaimShape' /\ SignatureShape' /\ RegisterHonest' /\ WasApproved' = WasApproved
BY DEF IInv, ClaimShape, SignatureShape, RegisterHonest, WasApproved, Approves, Made

\* A transaction that has written nothing is honest.
LEMMA NothingHonest == HonestWork(Nothing)
BY DEF HonestWork, Nothing, EmptyRegister, RowShape, WrittenShape

\* It holds of the empty register.
LEMMA Initially == Init => IInv
<1> SUFFICES ASSUME Init PROVE IInv
    OBVIOUS
<1>1. ClaimShape /\ RegisterHonest
    BY DEF Init, RegisterInit, EmptyRegister, ClaimShape, RegisterHonest
<1>2. SignatureShape
    BY DEF Init, RegisterInit, NoDecision, SignatureShape
<1>3. RulesetsHonest /\ PressHonest /\ MintsHonest
    BY DEF Init, Closed, NoReview, RulesetsHonest, PressHonest, MintsHonest
<1>4. HonestWork(flushed)
    BY NothingHonest DEF Init
<1> QED
    BY <1>1, <1>2, <1>3, <1>4 DEF IInv

\* Every step of the register keeps it.
LEMMA RegisterNextKeeps ==
    ASSUME IInv, Unread,
           \/ \E a \in Actors :
                 \/ BeginHarvest(a) \/ Harvest(a) \/ BeginEdit(a) \/ Edit(a) \/ BeginSign(a) \/ Sign(a)
                 \/ BeginRevoke(a) \/ BeginReassign(a) \/ Withdraw(a)
                 \/ BeginMatrix(a) \/ PutMatrix(a) \/ FirstMatrix(a)
           \/ \E s \in Ids : Lapse(s)
    PROVE  IInv'
<1> USE DEF IInv
<1>1. ASSUME NEW a \in Actors, Harvest(a)
      PROVE  IInv'
    <2>1. SignatureShape' /\ WasApproved' = WasApproved
        BY <1>1 DEF Harvest, SignatureShape, WasApproved, Approves, Made
    <2> QED
        BY <1>1, <2>1, HarvestApprovesNone, RegisterStep
<1>2. ASSUME NEW a \in Actors, Edit(a)
      PROVE  IInv'
    <2>1. SignatureShape' /\ WasApproved' = WasApproved
        BY <1>2 DEF Edit, SignatureShape, WasApproved, Approves, Made
    <2> QED
        BY <1>2, <2>1, EditApprovesNone, RegisterStep
<1>3. ASSUME NEW a \in Actors, Sign(a)
      PROVE  IInv'
    <2>1. /\ SignatureShape' /\ WasApproved \subseteq WasApproved'
          /\ desk[a].yes \cap Claims \subseteq WasApproved'
        BY <1>3, SignGains
    <2>2. /\ ClaimShape'
          /\ \A c \in Claims : claim'[c].status = "approved"
                                  => claim[c].status = "approved" \/ c \in desk[a].yes
        BY <1>3, SignApprovesDecided
    <2>3. \A c \in Claims : claim'[c].status = "approved"
                               => claim[c].status = "approved" \/ c \in WasApproved'
        BY <2>1, <2>2
    <2> QED
        BY <2>1, <2>2, <2>3, RegisterStep
<1>4. ASSUME NEW a \in Actors, Withdraw(a)
      PROVE  IInv'
    <2>1. SignatureShape' /\ WasApproved' = WasApproved
        BY <1>4, VoidGains DEF Withdraw
    <2>2. /\ ClaimShape'
          /\ \A c \in Claims : claim'[c].status = "approved" => claim[c].status = "approved"
        BY <1>4, SentBackApprovesNone DEF Withdraw
    <2> QED
        BY <2>1, <2>2, RegisterStep
<1>5. ASSUME NEW a \in Actors, PutMatrix(a)
      PROVE  IInv'
    <2>1. SignatureShape' /\ WasApproved' = WasApproved
        BY <1>5, VoidGains DEF PutMatrix
    <2> QED
        BY <1>5, <2>1, MatrixApprovesNone, RegisterStep
<1>6. ASSUME NEW s \in Ids, Lapse(s)
      PROVE  IInv'
    <2>1. SignatureShape' /\ WasApproved' = WasApproved
        BY <1>6, LapseGains
    <2>2. ClaimShape' /\ claim' = claim
        BY <1>6 DEF Lapse, ClaimShape
    <2> QED
        BY <2>1, <2>2, RegisterStep
<1>7. ASSUME UNCHANGED <<claim, signature>>
      PROVE  IInv'
    <2>1. ClaimShape' /\ SignatureShape' /\ WasApproved' = WasApproved
        BY <1>7, RegisterStays, Zenon
    <2> QED
        BY <1>7, <2>1, RegisterStep
<1>8. ASSUME NEW a \in Actors,
             BeginHarvest(a) \/ BeginEdit(a) \/ BeginSign(a) \/ BeginRevoke(a) \/ BeginReassign(a)
             \/ BeginMatrix(a) \/ FirstMatrix(a)
      PROVE  UNCHANGED <<claim, signature>>
    BY <1>8, Zenon DEF BeginHarvest, BeginEdit, BeginSign, BeginRevoke, BeginReassign, BeginMatrix,
                FirstMatrix, register
<1> QED
    BY <1>1, <1>2, <1>3, <1>4, <1>5, <1>6, <1>7, <1>8

-----------------------------------------------------------------------------

(* Publication and amendments                                                *)

\* A publish in flight copies what was licensed when it compiled.
LEMMA PublishKeeps ==
    ASSUME IInv, NEW p \in Publishers, BeginPublish(p) \/ Compile(p) \/ Seal(p)
    PROVE  IInv'
<1>1. UNCHANGED <<claim, signature, flushed, inbox>>
    BY DEF BeginPublish, Compile, Seal, register, policy
<1>2. /\ ClaimShape' /\ SignatureShape' /\ RegisterHonest' /\ WasApproved' = WasApproved
      /\ HonestWork(flushed)'
    BY <1>1, RegisterStays DEF IInv, HonestWork
<1>3. MintsHonest'
    BY <1>1, <1>2 DEF IInv, MintsHonest
<1>4. CASE BeginPublish(p)
    BY <1>2, <1>3, <1>4 DEF IInv, BeginPublish, books, Closed, PressHonest, RulesetsHonest
<1>5. CASE Compile(p)
    <2>1. Licensed \subseteq WasApproved
        BY LicensedHonest DEF IInv
    <2> QED
        BY <1>2, <1>3, <1>5, <2>1 DEF IInv, Compile, Closed, PressHonest, RulesetsHonest
<1>6. CASE Seal(p)
    <2>1. press' = [press EXCEPT ![p] = Closed]
        BY <1>6 DEF Seal
    <2>2. \A r \in rulesets' : r \in rulesets \/ r.licensed = press[p].licensed
        BY <1>6 DEF Seal
    <2>3. PressHonest'
        BY <1>2, <2>1 DEF IInv, PressHonest, Closed
    <2>4. RulesetsHonest'
        BY <1>2, <2>2 DEF IInv, PressHonest, RulesetsHonest
    <2> QED
        BY <1>2, <1>3, <2>3, <2>4 DEF IInv
<1> QED
    BY <1>4, <1>5, <1>6

\* A minor licenses what it is compiled with.
LEMMA MintedLicenses ==
    ASSUME NEW g, NEW issued, NEW licensed
    PROVE  Minted(g, issued, licensed).licensed = licensed
BY DEF Minted

\* What the watcher's transaction sees is as honest.
LEMMA SeenHonest ==
    ASSUME IInv
    PROVE  /\ DOMAIN Seen = Claims
           /\ \A c \in Claims : /\ DOMAIN Seen[c] = RowShape
                                /\ Seen[c].status = "approved" => c \in WasApproved
           /\ SeenLicensed \subseteq WasApproved
<1>1. DOMAIN Seen = Claims
    BY DEF Seen
<1>2. ASSUME NEW c \in Claims
      PROVE  /\ DOMAIN Seen[c] = RowShape
             /\ Seen[c].status = "approved" => c \in WasApproved
    <2>1. Seen[c] = IF c \in flushed.claims THEN flushed.rows[c] ELSE claim[c]
        BY DEF Seen
    <2>2. CASE c \in flushed.claims
        BY <2>1, <2>2 DEF IInv, HonestWork
    <2>3. CASE c \notin flushed.claims
        BY <2>1, <2>3 DEF IInv, ClaimShape, RegisterHonest, RowShape
    <2> QED
        BY <2>2, <2>3
<1>3. SeenLicensed \subseteq WasApproved
    BY <1>2 DEF SeenLicensed
<1> QED
    BY <1>1, <1>2, <1>3

\* The next amendment's turn leaves what was written.
LEMMA OnwardWrites ==
    ASSUME NEW written, DOMAIN written = WrittenShape, NEW status, Onward(written, status)
    PROVE  /\ DOMAIN flushed' = WrittenShape
           /\ flushed'.claims = written.claims /\ flushed'.rows = written.rows
           /\ flushed'.voided = written.voided /\ flushed'.minted = written.minted
<1>1. flushed' = [written EXCEPT !.status[sweep.on] = status]
    BY DEF Onward
<1> QED
    BY <1>1 DEF WrittenShape

\* The steps inside the watcher's transaction are honest: one that compiles
\* licenses what it sees, one that voids signatures sends claims back.
LEMMA WorkHonest ==
    ASSUME IInv, Recompile \/ AskPerson \/ VoidSignatures
    PROVE  HonestWork(flushed')
<1>1. HonestWork(flushed) /\ DOMAIN flushed = WrittenShape
    BY DEF IInv, HonestWork
<1>2. CASE Recompile
    <2>1. PICK g : Onward([flushed EXCEPT !.minted = @ \cup {Minted(g, rulesets \cup @, SeenLicensed)}],
                          "auto_applied")
        BY <1>2 DEF Recompile
    <2>2. PICK x : x = Minted(g, rulesets \cup flushed.minted, SeenLicensed)
        OBVIOUS
    <2>3. PICK written : written = [flushed EXCEPT !.minted = @ \cup {x}]
        OBVIOUS
    <2>4. /\ DOMAIN written = WrittenShape
          /\ written.rows = flushed.rows /\ written.minted = flushed.minted \cup {x}
        BY <1>1, <2>3 DEF WrittenShape
    <2>5. Onward(written, "auto_applied")
        BY <2>1, <2>2, <2>3
    <2>6. /\ DOMAIN flushed' = WrittenShape
          /\ flushed'.rows = flushed.rows /\ flushed'.minted = flushed.minted \cup {x}
        BY <2>4, <2>5, OnwardWrites
    <2>7. x.licensed \subseteq WasApproved
        BY <2>2, MintedLicenses, SeenHonest
    <2> QED
        BY <1>1, <2>6, <2>7 DEF HonestWork
<1>3. CASE AskPerson
    <2>1. Onward(flushed, "needs_review")
        BY <1>3 DEF AskPerson
    <2> QED
        BY <1>1, <2>1, OnwardWrites DEF HonestWork
<1>4. CASE VoidSignatures
    <2>1. PICK moved, written :
              /\ written = [flushed EXCEPT
                      !.voided = @ \cup sweep.sigs,
                      !.claims = @ \cup moved,
                      !.rows = [c \in Claims |->
                          IF c \in moved
                          THEN WriteRow(Seen[c], sweep.saw[c], "pending_signoff", NoId) ELSE @[c]]]
              /\ Onward(written, "needs_review")
        BY <1>4 DEF VoidSignatures
    <2>2. /\ DOMAIN written = WrittenShape /\ written.minted = flushed.minted
          /\ written.rows = [c \in Claims |->
                  IF c \in moved
                  THEN WriteRow(Seen[c], sweep.saw[c], "pending_signoff", NoId) ELSE flushed.rows[c]]
        BY <1>1, <2>1 DEF WrittenShape
    <2>3. /\ DOMAIN flushed' = WrittenShape
          /\ flushed'.rows = written.rows /\ flushed'.minted = flushed.minted
        BY <2>1, <2>2, OnwardWrites
    <2>4. ASSUME NEW c \in Claims
          PROVE  /\ DOMAIN flushed'.rows[c] = RowShape
                 /\ flushed'.rows[c].status = "approved" => c \in WasApproved
        <3>1. CASE c \in moved
            <4>1. flushed'.rows[c] = WriteRow(Seen[c], sweep.saw[c], "pending_signoff", NoId)
                BY <2>2, <2>3, <3>1
            <4>2. DOMAIN Seen[c] = RowShape /\ (Seen[c].status = "approved" => c \in WasApproved)
                BY SeenHonest
            <4>3. /\ DOMAIN flushed'.rows[c] = RowShape
                  /\ flushed'.rows[c].status \in {Seen[c].status, "pending_signoff"}
                BY <4>1, <4>2 DEF WriteRow, Column, RowShape
            <4> QED
                BY <4>2, <4>3
        <3>2. CASE c \notin moved
            <4>1. written.rows[c] = flushed.rows[c]
                BY <2>2, <3>2, Zenon
            <4>2. flushed'.rows[c] = flushed.rows[c]
                BY <2>3, <4>1
            <4> QED
                BY <1>1, <4>2 DEF HonestWork
        <3> QED
            BY <3>1, <3>2
    <2> QED
        BY <1>1, <2>3, <2>4 DEF HonestWork
<1> QED
    BY <1>2, <1>3, <1>4

SweepStep ==
    \/ \E m \in Amendments : Watch(m) \/ Classify(m)
    \/ BeginSweep \/ Recompile \/ AskPerson \/ FindSignatures \/ VoidSignatures
    \/ CommitSweep \/ SweepDies

\* Before its commit the watcher changes nothing that others see.
LEMMA SweepIsPrivate ==
    ASSUME SweepStep, ~CommitSweep
    PROVE  UNCHANGED <<claim, signature, owner, desk, guideline, rulesets, press, inbox>>
BY DEF SweepStep, Watch, Classify, BeginSweep, Recompile, AskPerson, FindSignatures, VoidSignatures,
       SweepDies, Onward, register, books

\* The watcher commits what it saw.
LEMMA SweepKeeps ==
    ASSUME IInv, SweepStep
    PROVE  IInv'
<1>1. CASE ~CommitSweep
    <2>1. UNCHANGED <<claim, signature, press, rulesets, inbox>>
        BY <1>1, SweepIsPrivate
    <2>2. ClaimShape' /\ SignatureShape' /\ RegisterHonest' /\ WasApproved' = WasApproved
        BY <2>1, RegisterStays
    <2>3. HonestWork(flushed')
        <3>1. ASSUME ~(Recompile \/ AskPerson \/ VoidSignatures)
              PROVE  flushed' \in {flushed, Nothing}
            BY <1>1, <3>1 DEF SweepStep, Watch, Classify, BeginSweep, FindSignatures, SweepDies, EndSweep
        <3> QED
            BY <3>1, WorkHonest, NothingHonest DEF IInv
    <2>4. HonestWork(flushed)'
        BY <2>2, <2>3 DEF HonestWork
    <2>5. RulesetsHonest' /\ PressHonest' /\ MintsHonest'
        BY <2>1, <2>2 DEF IInv, RulesetsHonest, PressHonest, MintsHonest
    <2> QED
        BY <2>2, <2>4, <2>5 DEF IInv
<1>2. CASE CommitSweep
    <2>1. /\ claim' = Seen /\ Void(flushed.voided) /\ rulesets' = rulesets \cup flushed.minted
          /\ flushed' = Nothing /\ UNCHANGED <<press, inbox>>
        BY <1>2 DEF CommitSweep, EndSweep
    <2>2. SignatureShape' /\ WasApproved' = WasApproved
        BY <2>1, VoidGains DEF IInv
    <2>3. ClaimShape' /\ RegisterHonest'
        BY <2>1, <2>2, SeenHonest DEF ClaimShape, RegisterHonest, RowShape
    <2>4. RulesetsHonest'
        BY <2>1, <2>2 DEF IInv, HonestWork, RulesetsHonest
    <2>5. PressHonest' /\ MintsHonest'
        BY <2>1, <2>2 DEF IInv, PressHonest, MintsHonest
    <2>6. HonestWork(flushed)'
        BY <2>1, <2>2, NothingHonest DEF HonestWork
    <2> QED
        BY <2>2, <2>3, <2>4, <2>5, <2>6 DEF IInv
<1> QED
    BY <1>1, <1>2

\* A reviewer commits what the request compiled.
LEMMA ReviewKeeps ==
    ASSUME IInv, NEW v \in Reviewers, BeginDecision(v) \/ Decide(v) \/ DecideRefused(v)
    PROVE  IInv'
<1>1. UNCHANGED <<claim, signature, press, flushed>>
    BY DEF BeginDecision, Decide, DecideRefused, register, books
<1>2. /\ ClaimShape' /\ SignatureShape' /\ RegisterHonest' /\ WasApproved' = WasApproved
      /\ HonestWork(flushed)'
    BY <1>1, RegisterStays DEF IInv, HonestWork
<1>3. PressHonest'
    BY <1>1, <1>2 DEF IInv, PressHonest
<1>4. CASE BeginDecision(v)
    <2>1. RulesetsHonest'
        BY <1>2, <1>4 DEF BeginDecision, books, IInv, RulesetsHonest
    <2>2. /\ DOMAIN inbox' = Reviewers
          /\ \A w \in Reviewers \ {v} : inbox'[w] = inbox[w]
          /\ \A r \in inbox'[v].mint : \E g \in InForce : r = Minted(g, rulesets, Licensed)
        BY <1>4 DEF BeginDecision, IInv, MintsHonest
    <2>3. \A r \in inbox'[v].mint : r.licensed \subseteq WasApproved
        BY <2>2, MintedLicenses, LicensedHonest DEF IInv
    <2>4. MintsHonest'
        BY <1>2, <2>2, <2>3 DEF IInv, MintsHonest
    <2> QED
        BY <1>2, <1>3, <2>1, <2>4 DEF IInv
<1>5. CASE Decide(v) \/ DecideRefused(v)
    <2>1. RulesetsHonest'
        BY <1>2, <1>5 DEF Decide, DecideRefused, books, IInv, RulesetsHonest, MintsHonest
    <2>2. MintsHonest'
        BY <1>1, <1>2, <1>5 DEF Decide, DecideRefused, NoReview, IInv, MintsHonest
    <2> QED
        BY <1>2, <1>3, <2>1, <2>2 DEF IInv
<1> QED
    BY <1>4, <1>5

-----------------------------------------------------------------------------

\* Every step keeps the invariant.
LEMMA Inductive == IInv /\ [Next]_vars => IInv'
<1> SUFFICES ASSUME IInv, [Next]_vars PROVE IInv'
    OBVIOUS
<1>1. ASSUME NEW g \in Guidelines, Draft(g) \/ Ready(g)
      PROVE  IInv'
    <2>1. UNCHANGED <<claim, signature, rulesets, press, flushed, inbox>>
        BY <1>1 DEF Draft, Ready, register, policy
    <2>2. ClaimShape' /\ SignatureShape' /\ RegisterHonest' /\ WasApproved' = WasApproved
        BY <2>1, RegisterStays
    <2> QED
        BY <2>1, <2>2, CopiesKept DEF IInv
<1>2. CASE UNCHANGED vars
    <2>1. ClaimShape' /\ SignatureShape' /\ RegisterHonest' /\ WasApproved' = WasApproved
        BY <1>2, RegisterStays DEF vars
    <2> QED
        BY <1>2, <2>1, CopiesKept DEF vars, IInv
<1> QED
    BY <1>1, <1>2, RegisterNextKeeps, PublishKeeps, SweepKeeps, ReviewKeeps DEF Next, SweepStep

\* Whatever the order of the requests that read and write the register, a
\* ruleset licenses nothing that no signature approved (claims_index.ref_status,
\* publish.py, policy/lifecycle.py mint_minor).
THEOREM SignedBeforeLicensed == Spec => []LicensedWasApproved
<1>1. IInv => LicensedWasApproved
    <2> SUFFICES ASSUME IInv, NEW c \in Licensed \cup UNION {r.licensed : r \in rulesets}
                 PROVE  \E s \in Ids : Made(s) /\ c \in signature[s].approves
        BY DEF LicensedWasApproved
    <2>1. c \in WasApproved
        BY LicensedHonest DEF IInv, RulesetsHonest
    <2> QED
        BY <2>1 DEF WasApproved, Approves
<1> QED
    BY Initially, Inductive, <1>1, PTL DEF Spec

-----------------------------------------------------------------------------

(* Types                                                                     *)

Row == [status : Statuses, words : Nat, sig : Ids \cup {NoId}]
Signature == [signer : Actors \cup {NoOne}, covers : SUBSET Claims, approves : SUBSET Claims,
              words : [Claims -> Nat], voided : BOOLEAN, lapsed : BOOLEAN]
Steps == {"idle", "harvest", "edit", "sign", "revoke", "reassign", "matrix", "first matrix"}
Request == [step : Steps, saw : Rows, about : SUBSET Claims, yes : SUBSET Claims,
            sigs : SUBSET Ids, who : Actors \cup {NoOne}]
Guideline == [status : {"absent", "draft", "ready", "published", "superseded"}, major : Nat]
Job == [step : {"idle", "compile", "seal"}, of : Guidelines \cup {NoGuideline},
        major : Nat, licensed : SUBSET Claims, replaces : SUBSET Guidelines]
Sweep == [step : {"idle", "next", "classified", "found"}, todo : SUBSET Amendments,
          on : Amendments \cup {NoAmendment}, about : SUBSET Claims, saw : Rows, sigs : SUBSET Ids]
Answer == {"absent", "needs_review", "auto_applied"}
Work == [claims : SUBSET Claims, rows : Rows, voided : SUBSET Ids, minted : SUBSET Ruleset,
         status : [Amendments -> Answer]]
Decision == [step : {"idle", "apply", "dismiss"}, on : Amendments \cup {NoAmendment},
             mint : SUBSET Ruleset]
Outcome == {"absent", "open", "needs_review", "applied", "auto_applied", "dismissed"}

RegisterTyped ==
    /\ claim \in [Claims -> Row]
    /\ signature \in [Ids -> Signature]
    /\ owner \in Actors \cup {NoOne}
    /\ desk \in [Actors -> Request]

\* There are finitely many rulesets, so that one of them is the newest.
BooksTyped ==
    /\ guideline \in [Guidelines -> Guideline]
    /\ rulesets \subseteq Ruleset /\ IsFiniteSet(rulesets)
    /\ press \in [Publishers -> Job]
    /\ \A p \in Publishers : press[p].step # "idle" => press[p].of \in Guidelines

PolicyTyped ==
    /\ amendment \in [Amendments -> Outcome]
    /\ sweep \in Sweep
    /\ flushed \in Work /\ IsFiniteSet(flushed.minted)
    /\ inbox \in [Reviewers -> Decision]
    /\ \A v \in Reviewers : IsFiniteSet(inbox[v].mint)

Typed == RegisterTyped /\ BooksTyped /\ PolicyTyped

\* The rows are functions to records.
LEMMA RowsAre == Rows = [Claims -> Row]
BY DEF Rows, Row

\* The number of no signature is none of theirs.
LEMMA IdsAre == Ids \subseteq Nat /\ NoId \notin Ids
BY RegisterAssumption DEF Ids, NoId

\* The strengthening is one of TypeOK.
LEMMA TypedIsTypeOK == Typed => TypeOK
BY RowsAre DEF Typed, RegisterTyped, BooksTyped, PolicyTyped, TypeOK, Row, Signature, Steps, Request,
   Guideline, Job, Sweep, Work, Answer, Decision, Outcome

\* The unit of work writes rows.
LEMMA WriteRowTyped ==
    ASSUME NEW row \in Row, NEW read \in Row, NEW st \in Statuses, NEW sig \in Ids \cup {NoId}
    PROVE  WriteRow(row, read, st, sig) \in Row
BY DEF WriteRow, Column, Row

\* So does a harvest.
LEMMA HarvestedTyped ==
    ASSUME claim \in [Claims -> Row], NEW c \in Claims, NEW saw \in Rows,
           NEW verdict \in Reharvestable, NEW moved \in BOOLEAN
    PROVE  Harvested(c, saw, verdict, moved) \in Row
<1>1. claim[c] \in Row /\ saw[c] \in Row /\ verdict \in Statuses
    BY RowsAre DEF Reharvestable, Statuses
<1> DEFINE st == IF saw[c].sig = NoId /\ saw[c].status \in {"absent"} \cup Reharvestable
                 THEN Column(claim[c].status, saw[c].status, verdict) ELSE claim[c].status
           w == IF moved /\ claim[c].words < MaxWordings THEN claim[c].words + 1 ELSE claim[c].words
<1>2. st \in Statuses
    BY <1>1 DEF Row, Column
<1>3. w \in Nat
    BY <1>1 DEF Row
<1>4. Harvested(c, saw, verdict, moved) = [claim[c] EXCEPT !.status = st, !.words = w]
    BY <1>1 DEF Harvested, Row
<1> HIDE DEF st, w
<1> QED
    BY <1>1, <1>2, <1>3, <1>4 DEF Row

\* Claims that are sent back are rows.
LEMMA SentBackTyped ==
    ASSUME claim \in [Claims -> Row], NEW C, NEW saw \in Rows
    PROVE  SentBack(C, saw) \in [Claims -> Row]
<1>1. "pending_signoff" \in Statuses /\ NoId \in Ids \cup {NoId}
    BY DEF Statuses
<1>2. ASSUME NEW c \in Claims
      PROVE  WriteRow(claim[c], saw[c], "pending_signoff", NoId) \in Row
    <2>1. claim[c] \in Row /\ saw[c] \in Row
        BY RowsAre
    <2> QED
        BY <1>1, <2>1, WriteRowTyped
<1> QED
    BY <1>2 DEF SentBack

\* Voided signatures are signatures.
LEMMA VoidTyped ==
    ASSUME signature \in [Ids -> Signature], NEW S, Void(S)
    PROVE  signature' \in [Ids -> Signature]
<1>1. ASSUME NEW s \in Ids
      PROVE  [signature[s] EXCEPT !.voided = @ \/ s \in S] \in Signature
    <2>1. signature[s] \in Signature
        OBVIOUS
    <2>2. (signature[s].voided \/ s \in S) \in BOOLEAN
        OBVIOUS
    <2> QED
        BY <2>1 DEF Signature
<1> QED
    BY <1>1 DEF Void

\* A desk takes a request.
LEMMA DeskTyped ==
    ASSUME desk \in [Actors -> Request], NEW a \in Actors, NEW request \in Request, Begin(a, request)
    PROVE  desk' \in [Actors -> Request]
BY DEF Begin

\* The blank request, and what it becomes.
LEMMA RequestsTyped ==
    ASSUME claim \in [Claims -> Row], NEW step \in Steps, NEW C \in SUBSET Claims
    PROVE  Idle \in Request /\ Call(step, C) \in Request /\ Ask(step, C) \in Request
<1>1. EmptyRegister \in Rows
    BY DEF EmptyRegister, Rows, Statuses
<1>2. Idle \in Request
    BY <1>1 DEF Idle, Request, Steps
<1>3. Call(step, C) \in Request
    BY <1>2 DEF Call, Request
<1>4. Ask(step, C) \in Request
    BY <1>3, RowsAre DEF Ask, Request
<1> QED
    BY <1>2, <1>3, <1>4

\* A desk is cleared.
LEMMA DoneTyped ==
    ASSUME claim \in [Claims -> Row], desk \in [Actors -> Request], NEW a \in Actors, Done(a)
    PROVE  desk' \in [Actors -> Request]
<1>1. Idle \in Request
    BY RequestsTyped DEF Steps
<1> QED
    BY <1>1 DEF Done

\* The requests that have read the register are requests.
LEMMA BeginsTyped ==
    ASSUME RegisterTyped, NEW a \in Actors,
           \/ BeginHarvest(a) \/ BeginEdit(a) \/ BeginSign(a) \/ BeginRevoke(a) \/ BeginReassign(a)
           \/ BeginMatrix(a)
    PROVE  RegisterTyped'
<1> USE DEF RegisterTyped
<1>1. UNCHANGED register
    BY DEF BeginHarvest, BeginEdit, BeginSign, BeginRevoke, BeginReassign, BeginMatrix
<1>2. SUFFICES \E request \in Request : Begin(a, request)
    BY <1>1, DeskTyped DEF register
<1>3. ASSUME NEW step \in Steps, NEW C \in SUBSET Claims
      PROVE  Call(step, C) \in Request /\ Ask(step, C) \in Request
    BY RequestsTyped
<1>4. \A S \in SUBSET Ids, p \in Actors, request \in Request :
          /\ [request EXCEPT !.sigs = S] \in Request
          /\ [request EXCEPT !.who = p] \in Request
          /\ [request EXCEPT !.sigs = S, !.who = p] \in Request
    BY DEF Request
<1>5. \A p : SignedBy(p) \subseteq Ids
    BY DEF SignedBy
<1>6. CASE BeginHarvest(a)
    BY <1>3, <1>6 DEF BeginHarvest, Steps
<1>7. CASE BeginEdit(a)
    <2>1. PICK c \in Claims : Begin(a, Call("edit", {c}))
        BY <1>7 DEF BeginEdit
    <2> QED
        BY <1>3, <2>1 DEF Steps
<1>8. CASE BeginSign(a)
    <2>1. PICK C \in SUBSET Claims, A \in SUBSET Claims : Begin(a, [Ask("sign", C) EXCEPT !.yes = A])
        BY <1>8 DEF BeginSign
    <2>2. Ask("sign", C) \in Request
        BY <1>3 DEF Steps
    <2>3. A \in SUBSET Claims
        BY <2>1
    <2>4. [Ask("sign", C) EXCEPT !.yes = A] \in Request
        BY <2>2, <2>3 DEF Request
    <2> QED
        BY <2>1, <2>4
<1>9. CASE BeginRevoke(a)
    <2>1. PICK s :
              /\ s \in Ids
              /\ Begin(a, [Ask("revoke", {d \in Claims : claim[d].sig = s}) EXCEPT !.sigs = {s}])
        <3>1. PICK c \in Claims :
                  /\ claim[c].sig # NoId
                  /\ Begin(a, [Ask("revoke", {d \in Claims : claim[d].sig = claim[c].sig})
                                 EXCEPT !.sigs = {claim[c].sig}])
            BY <1>9 DEF BeginRevoke
        <3>2. claim[c].sig \in Ids
            BY <3>1 DEF Row
        <3> QED
            BY <3>1, <3>2
    <2>2. PICK C \in SUBSET Claims : C = {d \in Claims : claim[d].sig = s}
        OBVIOUS
    <2>3. Ask("revoke", C) \in Request
        BY <1>3 DEF Steps
    <2>4. [Ask("revoke", C) EXCEPT !.sigs = {s}] \in Request
        BY <2>1, <2>3 DEF Request
    <2> QED
        BY <2>1, <2>2, <2>4
<1>10. CASE BeginReassign(a)
    <2>1. PICK p \in Actors : Begin(a, [Ask("reassign", {c \in Claims : claim[c].sig \in SignedBy(p)})
                                          EXCEPT !.sigs = SignedBy(p)])
        BY <1>10 DEF BeginReassign
    <2>2. PICK C \in SUBSET Claims : C = {c \in Claims : claim[c].sig \in SignedBy(p)}
        OBVIOUS
    <2>3. Ask("reassign", C) \in Request
        BY <1>3 DEF Steps
    <2>4. [Ask("reassign", C) EXCEPT !.sigs = SignedBy(p)] \in Request
        BY <1>4, <1>5, <2>3
    <2> QED
        BY <2>1, <2>2, <2>4
<1>11. CASE BeginMatrix(a)
    <2>1. PICK p \in Actors :
              \/ Begin(a, [Call("first matrix", {}) EXCEPT !.who = p])
              \/ Begin(a, [Call("matrix", {c \in Claims : claim[c].sig \in SignedBy(owner)})
                             EXCEPT !.sigs = SignedBy(owner), !.who = p])
        BY <1>11 DEF BeginMatrix
    <2>2. PICK C \in SUBSET Claims : C = {c \in Claims : claim[c].sig \in SignedBy(owner)}
        OBVIOUS
    <2>3. Call("first matrix", {}) \in Request /\ Call("matrix", C) \in Request
        BY <1>3 DEF Steps
    <2>4. /\ [Call("first matrix", {}) EXCEPT !.who = p] \in Request
          /\ [Call("matrix", C) EXCEPT !.sigs = SignedBy(owner), !.who = p] \in Request
        BY <1>4, <1>5, <2>3
    <2> QED
        BY <2>1, <2>2, <2>4
<1> QED
    BY <1>6, <1>7, <1>8, <1>9, <1>10, <1>11

\* What they write is typed.
LEMMA WritesTyped ==
    ASSUME RegisterTyped, NEW a \in Actors,
           \/ Harvest(a) \/ Edit(a) \/ Sign(a) \/ Withdraw(a) \/ PutMatrix(a) \/ FirstMatrix(a)
    PROVE  RegisterTyped'
<1> USE DEF RegisterTyped
<1>1. desk[a] \in Request
    OBVIOUS
<1>2. /\ desk[a].saw \in Rows /\ desk[a].about \in SUBSET Claims /\ desk[a].yes \in SUBSET Claims
      /\ desk[a].sigs \in SUBSET Ids /\ desk[a].who \in Actors \cup {NoOne}
    BY <1>1 DEF Request
<1>3. Done(a)
    BY DEF Harvest, Edit, Sign, Withdraw, PutMatrix, FirstMatrix
<1>4. desk' \in [Actors -> Request]
    BY <1>3, DoneTyped
<1>5. CASE Harvest(a)
    <2>1. PICK verdict \in Reharvestable, moved \in BOOLEAN :
              claim' = [c \in Claims |-> IF c \in desk[a].about
                                         THEN Harvested(c, desk[a].saw, verdict, moved) ELSE claim[c]]
        BY <1>5 DEF Harvest
    <2>2. \A c \in Claims : Harvested(c, desk[a].saw, verdict, moved) \in Row
        BY <1>2, HarvestedTyped
    <2>3. claim' \in [Claims -> Row]
        BY <2>1, <2>2
    <2> QED
        BY <1>4, <1>5, <2>3 DEF Harvest
<1>6. CASE Edit(a)
    <2>1. \A c \in Claims : [claim[c] EXCEPT !.words = @ + 1] \in Row
        BY DEF Row
    <2>2. claim' \in [Claims -> Row]
        BY <1>6, <2>1 DEF Edit
    <2> QED
        BY <1>4, <1>6, <2>2 DEF Edit
<1>7. CASE Sign(a)
    <2>1. PICK s \in Ids :
              /\ signature' = [signature EXCEPT ![s] = [NoDecision EXCEPT
                                  !.signer = a, !.covers = desk[a].about, !.approves = desk[a].yes,
                                  !.words = Wording(desk[a].about, desk[a].saw)]]
              /\ claim' = Decided(desk[a], s)
        BY <1>7 DEF Sign
    <2>r. \A c \in Claims : claim[c] \in Row /\ desk[a].saw[c] \in Row
        BY <1>2, RowsAre
    <2>2. \A c \in Claims : WriteRow(claim[c], desk[a].saw[c], "approved", s) \in Row
        BY <2>r, WriteRowTyped DEF Statuses
    <2>3. \A c \in Claims : WriteRow(claim[c], desk[a].saw[c], "rejected", s) \in Row
        BY <2>r, WriteRowTyped DEF Statuses
    <2>4. claim' \in [Claims -> Row]
        <3>1. ASSUME NEW c \in Claims
              PROVE  WriteRow(claim[c], desk[a].saw[c], IF c \in desk[a].yes THEN "approved" ELSE "rejected", s) \in Row
            BY <2>2, <2>3
        <3> QED
            BY <2>1, <3>1 DEF Decided
    <2>5. Wording(desk[a].about, desk[a].saw) \in [Claims -> Nat]
        BY <1>2, RowsAre DEF Wording, Row
    <2>6. [NoDecision EXCEPT !.signer = a, !.covers = desk[a].about, !.approves = desk[a].yes,
                             !.words = Wording(desk[a].about, desk[a].saw)] \in Signature
        BY <1>2, <2>5 DEF NoDecision, Signature
    <2>7. signature' \in [Ids -> Signature]
        BY <2>1, <2>6
    <2> QED
        BY <1>4, <1>7, <2>4, <2>7 DEF Sign
<1>8. CASE Withdraw(a)
    <2>1. Void(desk[a].sigs) /\ claim' = SentBack(desk[a].about, desk[a].saw) /\ owner' = owner
        BY <1>8 DEF Withdraw
    <2>2. signature' \in [Ids -> Signature]
        BY <2>1, VoidTyped
    <2>3. claim' \in [Claims -> Row]
        BY <1>2, <2>1, SentBackTyped
    <2> QED
        BY <1>4, <2>1, <2>2, <2>3
<1>9. CASE PutMatrix(a)
    <2>1. signature' \in [Ids -> Signature]
        BY <1>9, VoidTyped DEF PutMatrix
    <2>2. \A c \in Claims : [claim[c] EXCEPT !.status = "pending_signoff", !.sig = NoId] \in Row
        BY DEF Row, Statuses
    <2>3. claim' \in [Claims -> Row]
        BY <1>9, <2>2 DEF PutMatrix
    <2> QED
        BY <1>2, <1>4, <1>9, <2>1, <2>3 DEF PutMatrix
<1>10. CASE FirstMatrix(a)
    BY <1>2, <1>4, <1>10 DEF FirstMatrix
<1> QED
    BY <1>5, <1>6, <1>7, <1>8, <1>9, <1>10

\* An expiry is one column.
LEMMA LapseTyped ==
    ASSUME RegisterTyped, NEW s \in Ids, Lapse(s)
    PROVE  RegisterTyped'
<1>1. [signature[s] EXCEPT !.lapsed = TRUE] \in Signature
    BY DEF RegisterTyped, Signature
<1> QED
    BY <1>1 DEF RegisterTyped, Lapse

\* The greatest of finitely many numbers and zero.
LEMMA MaxOfValues ==
    ASSUME NEW S, IsFiniteSet(S), NEW f \in [S -> Nat],
           NEW V, V = {0} \cup {f[x] : x \in S}
    PROVE  Max(V) \in V /\ Max(V) \in Nat /\ \A v \in V : v <= Max(V)
<1>1. V \subseteq Nat
    OBVIOUS
<1>2. PICK m \in V : \A x \in S : f[x] <= m
    BY GreatestValue
<1>3. \A v \in V : m >= v
    BY <1>1, <1>2
<1>4. Max(V) \in V /\ \A v \in V : Max(V) >= v
    BY <1>3, Zenon DEF Max
<1> HIDE DEF Max
<1> QED
    BY <1>1, <1>4

\* The next version is above every row's (versions.py next_major).
LEMMA NextMajorIsAbove ==
    ASSUME guideline \in [Guidelines -> Guideline]
    PROVE  NextMajor \in Nat /\ \A g \in Guidelines : guideline[g].major < NextMajor
<1> DEFINE f == [g \in Guidelines |-> guideline[g].major]
<1>1. f \in [Guidelines -> Nat]
    BY DEF Guideline
<1>2. PICK V : V = {0} \cup {guideline[g].major : g \in Guidelines}
    OBVIOUS
<1>3. V = {0} \cup {f[g] : g \in Guidelines}
    BY <1>2
<1> HIDE DEF f
<1>4. Max(V) \in Nat /\ \A v \in V : v <= Max(V)
    BY <1>1, <1>3, MaxOfValues, PublicationAssumption
<1>5. NextMajor = Max(V) + 1
    BY <1>2 DEF NextMajor
<1>6. \A g \in Guidelines : guideline[g].major \in V /\ guideline[g].major \in Nat
    BY <1>2 DEF Guideline
<1> QED
    BY <1>4, <1>5, <1>6

\* A minor that is compiled follows one that exists, or is the first (mint_minor).
LEMMA MintedFollows ==
    ASSUME guideline \in [Guidelines -> Guideline], NEW g \in Guidelines,
           NEW issued \in SUBSET Ruleset, IsFiniteSet(issued), NEW licensed \in SUBSET Claims,
           NEW mint, mint = Minted(g, issued, licensed)
    PROVE  /\ mint \in Ruleset
           /\ mint.of = g /\ mint.major = guideline[g].major
           /\ \/ mint.minor = 1
              \/ \E r \in issued : /\ r.of = g /\ r.major = guideline[g].major
                                   /\ r.minor + 1 = mint.minor
<1>1. PICK S : S = {r \in issued : r.of = g /\ r.major = guideline[g].major}
    OBVIOUS
<1>2. IsFiniteSet(S)
    BY <1>1, FS_Subset
<1> DEFINE f == [r \in S |-> r.minor]
<1>3. f \in [S -> Nat]
    BY <1>1 DEF Ruleset
<1>4. MinorsOf(g, issued) = {f[r] : r \in S}
    BY <1>1 DEF MinorsOf
<1>5. PICK V : V = {0} \cup MinorsOf(g, issued)
    OBVIOUS
<1>6. V = {0} \cup {f[r] : r \in S}
    BY <1>4, <1>5
<1> HIDE DEF f
<1>7. Max(V) \in V /\ Max(V) \in Nat
    BY ONLY <1>2, <1>3, <1>6, MaxOfValues, Zenon
<1>8. guideline[g].major \in Nat
    BY DEF Guideline
<1>9. /\ mint.of = g /\ mint.major = guideline[g].major
      /\ mint.minor = Max(V) + 1 /\ mint \in Ruleset
    BY <1>5, <1>7, <1>8 DEF Minted, Ruleset
<1>10. CASE Max(V) = 0
    BY <1>9, <1>10
<1>11. CASE Max(V) \in MinorsOf(g, issued)
    <2>1. PICK r \in issued : r.of = g /\ r.major = guideline[g].major /\ r.minor = Max(V)
        BY <1>11 DEF MinorsOf
    <2> QED
        BY <1>9, <2>1
<1> QED
    BY <1>5, <1>7, <1>10, <1>11

\* What is licensed are claims.
LEMMA LicensedAre == Licensed \subseteq Claims /\ SeenLicensed \subseteq Claims
BY DEF Licensed, SeenLicensed

\* Nothing outside the register.
LEMMA UnreadTyped == BooksTyped /\ PolicyTyped /\ Unread => BooksTyped' /\ PolicyTyped'
BY DEF BooksTyped, PolicyTyped, Unread, books, policy

\* Every write of the books is typed.
LEMMA BooksStepTyped ==
    ASSUME Typed,
           \/ \E g \in Guidelines : Draft(g) \/ Ready(g)
           \/ \E p \in Publishers : BeginPublish(p) \/ Compile(p) \/ Seal(p)
    PROVE  Typed'
<1> USE DEF Typed, RegisterTyped, BooksTyped, PolicyTyped
<1>1. UNCHANGED <<register, desk, policy>>
    BY DEF Draft, Ready, BeginPublish, Compile, Seal
<1>2. RegisterTyped' /\ PolicyTyped'
    BY <1>1 DEF register, policy
<1>3. NextMajor \in Nat
    BY NextMajorIsAbove
<1>4. Closed \in Job
    BY DEF Closed, Job
<1>5. ASSUME NEW g \in Guidelines, Draft(g) \/ Ready(g)
      PROVE  BooksTyped'
    <2>1. guideline' \in [Guidelines -> Guideline]
        BY <1>3, <1>5 DEF Draft, Ready, Guideline
    <2> QED
        BY <1>5, <2>1 DEF Draft, Ready
<1>6. ASSUME NEW p \in Publishers, BeginPublish(p)
      PROVE  BooksTyped'
    <2>1. PICK g \in Guidelines : press' = [press EXCEPT ![p] = [Closed EXCEPT !.step = "compile", !.of = g]]
        BY <1>6, PublicationAssumption DEF BeginPublish
    <2>2. [Closed EXCEPT !.step = "compile", !.of = g] \in Job
        BY <1>4 DEF Job
    <2>3. [Closed EXCEPT !.step = "compile", !.of = g].of = g
        BY DEF Closed
    <2> QED
        BY <1>6, <2>1, <2>2, <2>3 DEF BeginPublish
<1>7. ASSUME NEW p \in Publishers, Compile(p)
      PROVE  BooksTyped'
    <2>1. press[p] \in Job /\ press[p].of \in Guidelines
        BY <1>7 DEF Compile
    <2>2. PICK sealing : sealing = [step |-> "seal", of |-> press[p].of, major |-> NextMajor,
                                    licensed |-> Licensed, replaces |-> Published \ {press[p].of}]
        OBVIOUS
    <2>3. sealing \in Job /\ sealing.of = press[p].of
        BY <1>3, <2>1, <2>2 DEF Job, Licensed, Published
    <2>4. press' = [press EXCEPT ![p] = sealing] \/ press' = [press EXCEPT ![p] = Closed]
        BY <1>7, <2>2 DEF Compile
    <2>5. press' \in [Publishers -> Job] /\ \A q \in Publishers : press'[q].step # "idle" => press'[q].of \in Guidelines
        <3>1. Closed.step = "idle"
            BY DEF Closed
        <3>2. press' \in [Publishers -> Job]
            BY <1>4, <2>3, <2>4
        <3>3. \A q \in Publishers : press'[q] \in {press[q], Closed, sealing}
            BY <2>4
        <3>4. \A q \in Publishers : press'[q].step # "idle" => press'[q].of \in Guidelines
            BY <2>1, <2>3, <3>1, <3>3
        <3> QED
            BY <3>2, <3>4
    <2> QED
        BY <1>7, <2>5 DEF Compile
<1>8. ASSUME NEW p \in Publishers, Seal(p)
      PROVE  BooksTyped'
    <2>1. press[p] \in Job /\ press[p].of \in Guidelines
        BY <1>8 DEF Seal
    <2>2. press' \in [Publishers -> Job] /\ \A q \in Publishers : press'[q].step # "idle" => press'[q].of \in Guidelines
        <3>1. press' = [press EXCEPT ![p] = Closed]
            BY <1>8 DEF Seal
        <3>2. Closed.step = "idle"
            BY DEF Closed
        <3>3. \A q \in Publishers : press'[q] \in {press[q], Closed}
            BY <3>1
        <3> QED
            BY <1>4, <3>1, <3>2, <3>3
    <2>3. PICK new : new = [of |-> press[p].of, major |-> press[p].major, minor |-> 0, licensed |-> press[p].licensed]
        OBVIOUS
    <2>4. new \in Ruleset
        BY <2>1, <2>3 DEF Job, Ruleset
    <2>5. CASE UNCHANGED <<guideline, rulesets>>
        BY <2>2, <2>5
    <2>6. CASE ~UNCHANGED <<guideline, rulesets>>
        <3>1. /\ guideline' = [g \in Guidelines |->
                    IF g = press[p].of THEN [status |-> "published", major |-> press[p].major]
                    ELSE IF g \in press[p].replaces THEN [guideline[g] EXCEPT !.status = "superseded"]
                    ELSE guideline[g]]
              /\ rulesets' = rulesets \cup {new}
            BY <1>8, <2>3, <2>6 DEF Seal
        <3>2. guideline' \in [Guidelines -> Guideline]
            <4>1. [status |-> "published", major |-> press[p].major] \in Guideline
                BY <2>1 DEF Job, Guideline
            <4>2. \A g \in Guidelines : [guideline[g] EXCEPT !.status = "superseded"] \in Guideline
                BY DEF Guideline
            <4> QED
                BY <3>1, <4>1, <4>2
        <3>3. rulesets' \subseteq Ruleset /\ IsFiniteSet(rulesets')
            BY <2>4, <3>1, FS_AddElement
        <3> QED
            BY <2>2, <3>2, <3>3
    <2> QED
        BY <2>5, <2>6
<1> QED
    BY <1>2, <1>5, <1>6, <1>7, <1>8

\* A transaction that has written nothing.
LEMMA NothingTyped == NoSweep \in Sweep /\ Nothing \in Work /\ Nothing.minted = {} /\ IsFiniteSet({})
<1>1. EmptyRegister \in Rows
    BY RowsAre DEF EmptyRegister, Row, Statuses
<1> QED
    BY <1>1, FS_EmptySet DEF NoSweep, Nothing, Sweep, Work, Answer

\* What it sees are rows.
LEMMA SeenTyped ==
    ASSUME Typed
    PROVE  Seen \in [Claims -> Row]
<1>1. flushed.rows \in [Claims -> Row] /\ claim \in [Claims -> Row]
    BY RowsAre DEF Typed, RegisterTyped, PolicyTyped, Work
<1> QED
    BY <1>1 DEF Seen

\* The steps inside the watcher's transaction are typed.
LEMMA WorkTyped ==
    ASSUME Typed, Recompile \/ AskPerson \/ VoidSignatures
    PROVE  sweep' \in Sweep /\ flushed' \in Work /\ IsFiniteSet(flushed'.minted)
<1>1. flushed \in Work /\ IsFiniteSet(flushed.minted) /\ sweep \in Sweep
    BY DEF Typed, PolicyTyped
<1>2. ASSUME NEW written \in Work, IsFiniteSet(written.minted), NEW status \in Answer,
             Onward(written, status)
      PROVE  sweep' \in Sweep /\ flushed' \in Work /\ IsFiniteSet(flushed'.minted)
    <2>1. sweep' \in Sweep
        BY <1>1, <1>2, NothingTyped DEF Onward, Sweep
    <2>2. flushed' = [written EXCEPT !.status = [written.status EXCEPT ![sweep.on] = status]]
        BY <1>2 DEF Onward, Work
    <2>3. [written.status EXCEPT ![sweep.on] = status] \in [Amendments -> Answer]
        BY <1>2 DEF Work
    <2>4. flushed' \in Work /\ flushed'.minted = written.minted
        BY <2>2, <2>3 DEF Work
    <2> QED
        BY <1>2, <2>1, <2>4
<1>3. CASE Recompile
    <2>1. PICK g \in Guidelines :
              Onward([flushed EXCEPT !.minted = @ \cup {Minted(g, rulesets \cup @, SeenLicensed)}],
                     "auto_applied")
        BY <1>3 DEF Recompile, InForce, Published
    <2>2. PICK x : x = Minted(g, rulesets \cup flushed.minted, SeenLicensed)
        OBVIOUS
    <2>3. rulesets \cup flushed.minted \in SUBSET Ruleset /\ IsFiniteSet(rulesets \cup flushed.minted)
        BY <1>1, FS_Union DEF Typed, BooksTyped, Work
    <2>4. x \in Ruleset
        BY <2>2, <2>3, LicensedAre, MintedFollows DEF Typed, BooksTyped
    <2>5. PICK written : written = [flushed EXCEPT !.minted = @ \cup {x}]
        OBVIOUS
    <2>6. written \in Work /\ written.minted = flushed.minted \cup {x}
        BY <1>1, <2>4, <2>5 DEF Work
    <2>7. IsFiniteSet(written.minted)
        BY <1>1, <2>6, FS_AddElement
    <2>8. Onward(written, "auto_applied")
        BY <2>1, <2>2, <2>5
    <2> QED
        BY <1>2, <2>6, <2>7, <2>8 DEF Answer
<1>4. CASE AskPerson
    BY <1>1, <1>2, <1>4 DEF AskPerson, Answer
<1>5. CASE VoidSignatures
    <2>1. PICK moved, written :
              /\ moved \in SUBSET Claims
              /\ written = [flushed EXCEPT
                      !.voided = @ \cup sweep.sigs,
                      !.claims = @ \cup moved,
                      !.rows = [c \in Claims |->
                          IF c \in moved
                          THEN WriteRow(Seen[c], sweep.saw[c], "pending_signoff", NoId) ELSE @[c]]]
              /\ Onward(written, "needs_review")
        <3>1. sweep.about \in SUBSET Claims
            BY <1>1 DEF Sweep
        <3>2. PICK moved : moved = {c \in sweep.about : \/ sweep.saw[c].status # "pending_signoff"
                                                        \/ sweep.saw[c].sig # NoId}
            OBVIOUS
        <3> QED
            BY <1>5, <3>1, <3>2 DEF VoidSignatures
    <2>2. ASSUME NEW c \in Claims
          PROVE  /\ WriteRow(Seen[c], sweep.saw[c], "pending_signoff", NoId) \in Row
                 /\ flushed.rows[c] \in Row
        <3>1. Seen[c] \in Row /\ sweep.saw[c] \in Row /\ flushed.rows[c] \in Row
            BY <1>1, SeenTyped, RowsAre DEF Sweep, Work
        <3>2. "pending_signoff" \in Statuses /\ NoId \in Ids \cup {NoId}
            BY DEF Statuses
        <3> QED
            BY <3>1, <3>2, WriteRowTyped
    <2>3. PICK rows : rows = [c \in Claims |->
              IF c \in moved
              THEN WriteRow(Seen[c], sweep.saw[c], "pending_signoff", NoId) ELSE flushed.rows[c]]
        OBVIOUS
    <2>4. rows \in Rows
        BY <2>2, <2>3, RowsAre
    <2>5. written = [flushed EXCEPT !.voided = @ \cup sweep.sigs, !.claims = @ \cup moved, !.rows = rows]
        BY <2>1, <2>3
    <2>6. sweep.sigs \in SUBSET Ids
        BY <1>1 DEF Sweep
    <2>7. written \in Work /\ written.minted = flushed.minted
        BY <1>1, <2>1, <2>4, <2>5, <2>6 DEF Work
    <2> QED
        BY <1>1, <1>2, <2>1, <2>7 DEF Answer
<1> QED
    BY <1>3, <1>4, <1>5

\* Every step of the watcher is typed.
LEMMA SweepStepTyped ==
    ASSUME Typed, SweepStep
    PROVE  Typed'
<1>1. RegisterTyped /\ BooksTyped /\ PolicyTyped
    BY DEF Typed
<1>2. CASE ~CommitSweep
    <2>1. UNCHANGED <<claim, signature, owner, desk, guideline, rulesets, press, inbox>>
        BY <1>2, SweepIsPrivate
    <2>2. RegisterTyped' /\ BooksTyped'
        BY <1>1, <2>1 DEF RegisterTyped, BooksTyped
    <2>3. amendment' \in [Amendments -> Outcome]
        BY <1>1, <1>2
           DEF SweepStep, Watch, Classify, BeginSweep, Recompile, AskPerson, FindSignatures,
               VoidSignatures, SweepDies, Onward, PolicyTyped, Outcome
    <2>4. sweep' \in Sweep /\ flushed' \in Work /\ IsFiniteSet(flushed'.minted)
        <3>1. CASE Recompile \/ AskPerson \/ VoidSignatures
            BY <3>1, WorkTyped
        <3>2. ASSUME flushed' = flushed, sweep' \in Sweep
              PROVE  sweep' \in Sweep /\ flushed' \in Work /\ IsFiniteSet(flushed'.minted)
            BY <1>1, <3>2 DEF PolicyTyped
        <3>3. ASSUME NEW m \in Amendments, Watch(m)
              PROVE  flushed' = flushed /\ sweep' \in Sweep
            BY <1>1, <3>3 DEF Watch, PolicyTyped
        <3>4. CASE BeginSweep
            <4>1. sweep' \in Sweep
                BY <3>4, NothingTyped DEF BeginSweep, Sweep
            <4> QED
                BY <3>2, <3>4, <4>1 DEF BeginSweep
        <3>5. ASSUME NEW m \in Amendments, Classify(m)
              PROVE  flushed' = flushed /\ sweep' \in Sweep
            <4>1. PICK C \in SUBSET Claims :
                      sweep' = [NoSweep EXCEPT !.step = "classified", !.todo = sweep.todo \ {m},
                                               !.on = m, !.about = C]
                <5>1. PICK C : C = {c \in Claims : /\ Seen[c].status = "approved" /\ Seen[c].sig # NoId
                                                   /\ SeenStanding(Seen[c].sig)}
                    OBVIOUS
                <5> QED
                    BY <3>5, <5>1 DEF Classify
            <4>2. sweep' \in Sweep
                BY <1>1, <4>1, NothingTyped DEF PolicyTyped, Sweep
            <4> QED
                BY <3>5, <4>2 DEF Classify
        <3>6. CASE FindSignatures
            <4>1. PICK C, S :
                      /\ C \in SUBSET Claims
                      /\ S = {s \in {Seen[c].sig : c \in C} \ {NoId} : SeenStanding(s)}
                      /\ sweep' = [sweep EXCEPT !.step = "found", !.about = C, !.saw = Seen, !.sigs = S]
                <5>1. sweep.about \in SUBSET Claims
                    BY <1>1 DEF PolicyTyped, Sweep
                <5> QED
                    BY <3>6, <5>1 DEF FindSignatures
            <4>2. Seen \in Rows /\ S \in SUBSET Ids
                BY <4>1, SeenTyped, RowsAre DEF Row
            <4>3. sweep' \in Sweep
                BY <1>1, <4>1, <4>2 DEF PolicyTyped, Sweep
            <4> QED
                BY <3>2, <3>6, <4>3 DEF FindSignatures
        <3>7. CASE SweepDies
            BY <3>7, NothingTyped DEF SweepDies, EndSweep
        <3> QED
            BY <1>2, <3>1, <3>2, <3>3, <3>4, <3>5, <3>6, <3>7 DEF SweepStep
    <2>5. PolicyTyped'
        BY <1>1, <2>1, <2>3, <2>4 DEF PolicyTyped
    <2> QED
        BY <2>2, <2>5 DEF Typed
<1>3. CASE CommitSweep
    <2>1. /\ claim' = Seen /\ Void(flushed.voided) /\ rulesets' = rulesets \cup flushed.minted
          /\ sweep' = NoSweep /\ flushed' = Nothing
          /\ UNCHANGED <<owner, desk, guideline, press, inbox>>
        BY <1>3 DEF CommitSweep, EndSweep
    <2>2. RegisterTyped'
        BY <1>1, <2>1, SeenTyped, VoidTyped DEF RegisterTyped
    <2>3. BooksTyped'
        BY <1>1, <2>1, FS_Union DEF BooksTyped, PolicyTyped, Work
    <2>4. amendment' \in [Amendments -> Outcome]
        BY <1>1, <1>3 DEF CommitSweep, PolicyTyped, Work, Answer, Outcome
    <2>5. PolicyTyped'
        BY <1>1, <2>1, <2>4, NothingTyped DEF PolicyTyped
    <2> QED
        BY <2>2, <2>3, <2>5 DEF Typed
<1> QED
    BY <1>2, <1>3

\* So is every step of a reviewer.
LEMMA ReviewStepTyped ==
    ASSUME Typed, NEW v \in Reviewers, BeginDecision(v) \/ Decide(v) \/ DecideRefused(v)
    PROVE  Typed'
<1> USE DEF Typed, RegisterTyped, BooksTyped, PolicyTyped
<1>1. UNCHANGED <<register, desk, guideline, press, sweep, flushed>>
    BY DEF BeginDecision, Decide, DecideRefused, books
<1>2. RegisterTyped'
    BY <1>1 DEF register
<1>3. NoReview \in Decision /\ NoReview.mint = {} /\ IsFiniteSet({})
    BY FS_EmptySet DEF NoReview, Decision
<1>4. CASE BeginDecision(v)
    <2>1. PICK m \in Amendments :
              \/ \E g \in Guidelines :
                    inbox' = [inbox EXCEPT ![v] = [step |-> "apply", on |-> m,
                                                   mint |-> {Minted(g, rulesets, Licensed)}]]
              \/ inbox' = [inbox EXCEPT ![v] = [step |-> "dismiss", on |-> m, mint |-> {}]]
        BY <1>4 DEF BeginDecision, InForce, Published
    <2>2. PICK job : /\ inbox' = [inbox EXCEPT ![v] = job]
                     /\ job \in Decision /\ IsFiniteSet(job.mint)
        <3>1. CASE inbox' = [inbox EXCEPT ![v] = [step |-> "dismiss", on |-> m, mint |-> {}]]
            <4>1. PICK job : job = [step |-> "dismiss", on |-> m, mint |-> {}]
                OBVIOUS
            <4>2. job \in Decision /\ job.mint = {}
                BY <4>1 DEF Decision
            <4> QED
                BY <1>3, <3>1, <4>1, <4>2
        <3>2. ASSUME NEW g \in Guidelines,
                     inbox' = [inbox EXCEPT ![v] = [step |-> "apply", on |-> m,
                                                    mint |-> {Minted(g, rulesets, Licensed)}]]
              PROVE  \E job : /\ inbox' = [inbox EXCEPT ![v] = job]
                              /\ job \in Decision /\ IsFiniteSet(job.mint)
            <4>1. PICK x : x = Minted(g, rulesets, Licensed)
                OBVIOUS
            <4>2. x \in Ruleset
                BY <4>1, LicensedAre, MintedFollows
            <4>3. PICK job : job = [step |-> "apply", on |-> m, mint |-> {x}]
                OBVIOUS
            <4>4. job \in Decision /\ job.mint = {x}
                BY <4>2, <4>3 DEF Decision
            <4> QED
                BY <3>2, <4>1, <4>3, <4>4, FS_Singleton
        <3> QED
            BY <2>1, <3>1, <3>2
    <2>3. /\ inbox' \in [Reviewers -> Decision]
          /\ \A w \in Reviewers : IsFiniteSet(inbox'[w].mint)
        BY <2>2
    <2> QED
        BY <1>1, <1>2, <1>4, <2>3 DEF BeginDecision, books
<1>5. CASE Decide(v) \/ DecideRefused(v)
    <2>1. rulesets' \subseteq Ruleset /\ IsFiniteSet(rulesets')
        <3>1. IsFiniteSet(rulesets \cup inbox[v].mint) /\ inbox[v].mint \subseteq Ruleset
            BY FS_Union DEF Decision
        <3> QED
            BY <1>5, <3>1 DEF Decide, DecideRefused, books
    <2>2. inbox' = [inbox EXCEPT ![v] = NoReview]
        BY <1>5 DEF Decide, DecideRefused
    <2>3. /\ inbox' \in [Reviewers -> Decision]
          /\ \A w \in Reviewers : IsFiniteSet(inbox'[w].mint)
        BY <1>3, <2>2
    <2>4. amendment' \in [Amendments -> Outcome]
        BY <1>5 DEF Decide, DecideRefused, Outcome
    <2> QED
        BY <1>1, <1>2, <2>1, <2>3, <2>4
<1> QED
    BY <1>4, <1>5

\* The variables start typed.
LEMMA InitTyped == Init => Typed
<1> SUFFICES ASSUME Init PROVE Typed
    OBVIOUS
<1>1. EmptyRegister \in [Claims -> Row]
    BY DEF EmptyRegister, Row, Statuses
<1>2. Idle \in Request
    BY <1>1, RowsAre DEF Idle, Request, Steps
<1>3. RegisterTyped
    BY <1>1, <1>2 DEF Init, RegisterInit, NoDecision, RegisterTyped, Signature
<1>4. BooksTyped
    BY FS_EmptySet DEF Init, Closed, Job, Guideline, BooksTyped
<1>5. PolicyTyped
    BY <1>1, NothingTyped, FS_EmptySet DEF Init, NoReview, Decision, Outcome, PolicyTyped
<1> QED
    BY <1>3, <1>4, <1>5 DEF Typed

\* Every step is typed.
LEMMA NextTyped == Typed /\ [Next]_vars => Typed'
<1> SUFFICES ASSUME Typed, [Next]_vars PROVE Typed'
    OBVIOUS
<1>1. ASSUME NEW a \in Actors, Unread,
             \/ BeginHarvest(a) \/ BeginEdit(a) \/ BeginSign(a) \/ BeginRevoke(a) \/ BeginReassign(a)
             \/ BeginMatrix(a)
      PROVE  Typed'
    BY <1>1, BeginsTyped, UnreadTyped DEF Typed
<1>2. ASSUME NEW a \in Actors, Unread,
             \/ Harvest(a) \/ Edit(a) \/ Sign(a) \/ Withdraw(a) \/ PutMatrix(a) \/ FirstMatrix(a)
      PROVE  Typed'
    BY <1>2, WritesTyped, UnreadTyped DEF Typed
<1>3. ASSUME NEW s \in Ids, Lapse(s), Unread
      PROVE  Typed'
    BY <1>3, LapseTyped, UnreadTyped DEF Typed
<1>4. CASE UNCHANGED vars
    BY <1>4 DEF vars, Typed, RegisterTyped, BooksTyped, PolicyTyped
<1> QED
    BY <1>1, <1>2, <1>3, <1>4, BooksStepTyped, SweepStepTyped, ReviewStepTyped DEF Next, SweepStep

\* Every column of the register, the books and the amendments keeps to its values
\* (db/models.py ClaimStatus, GuidelineStatus, AmendmentStatus): a request that
\* writes back what it read never makes a row of no kind.
THEOREM ColumnsTyped == Spec => []TypeOK
BY InitTyped, NextTyped, TypedIsTypeOK, PTL DEF Spec

-----------------------------------------------------------------------------

(* The rulebook                                                              *)

InForceNow == {guideline[g].major : g \in Published}
IssuedNow == {<<r.major, r.minor>> : r \in rulesets}

\* One person publishes, and waits for the answer.
Alone == \A p, q \in Publishers : p = q

\* A step of SupersededStays.
Stays == \A g \in Guidelines : guideline[g].status = "superseded" => guideline'[g] = guideline[g]

Sealed(g) == guideline[g].status \in {"published", "superseded"}

\* Nothing was sealed since p has compiled: p holds the next version and will
\* supersede everything that is published.
Fresh(p) ==
    /\ press[p].major = NextMajor
    /\ Published \subseteq press[p].replaces \cup {press[p].of}

\* The version p holds was sealed by another.
Late(p) == \E g \in Guidelines : Sealed(g) /\ guideline[g].major = press[p].major

PressTrue ==
    \A p \in Publishers : press[p].step = "seal" =>
        /\ press[p].of \notin press[p].replaces
        /\ Fresh(p) \/ (~Alone /\ Late(p))

\* What is published was issued.
Pinned ==
    \A g \in Published : \E r \in rulesets :
        r.of = g /\ r.major = guideline[g].major /\ r.minor = 0

\* The minors in flight follow what was issued, or one another.
Follows(mint) ==
    \A x \in mint : /\ Published # {}
                    /\ \E r \in rulesets \cup mint : r.major = x.major /\ r.minor + 1 = x.minor

MintsFollow == Follows(flushed.minted) /\ \A v \in Reviewers : Follows(inbox[v].mint)

Versions == PressTrue /\ Pinned /\ MintsFollow

\* Rulesets are only added to: what was pinned and followed still is.
LEMMA AddingKeeps ==
    ASSUME Typed, Pinned, rulesets \subseteq rulesets', Published' = Published,
           \A g \in Published : guideline'[g] = guideline[g]
    PROVE  Pinned' /\ \A mint : Follows(mint) => Follows(mint)'
<1>1. Pinned'
    BY DEF Pinned
<1>2. ASSUME NEW mint, Follows(mint)
      PROVE  Follows(mint)'
    BY <1>2 DEF Follows
<1> QED
    BY <1>1, <1>2

\* A step that leaves the books leaves the presses true.
LEMMA StillTrue ==
    ASSUME PressTrue, UNCHANGED <<guideline, press>>
    PROVE  PressTrue' /\ Published' = Published
BY DEF PressTrue, Fresh, Late, Sealed, Published, NextMajor

\* A minor that is compiled from what is in force follows one that was issued, or
\* one of the minors it was compiled above.
LEMMA MintedInForceFollows ==
    ASSUME Typed, Pinned, NEW g \in InForce, NEW mint \in SUBSET Ruleset, IsFiniteSet(mint),
           Follows(mint), NEW licensed \in SUBSET Claims,
           NEW x, x = Minted(g, rulesets \cup mint, licensed)
    PROVE  Follows(mint \cup {x})
<1>1. g \in Published /\ g \in Guidelines
    BY DEF InForce, Published
<1>2. PICK z \in rulesets : z.of = g /\ z.major = guideline[g].major /\ z.minor = 0
    BY <1>1 DEF Pinned
<1>3. PICK issued : issued = rulesets \cup mint
    OBVIOUS
<1>4. issued \in SUBSET Ruleset /\ IsFiniteSet(issued) /\ guideline \in [Guidelines -> Guideline]
    BY <1>3, FS_Union DEF Typed, BooksTyped
<1>5. /\ g \in Guidelines /\ issued \in SUBSET Ruleset /\ IsFiniteSet(issued)
      /\ licensed \in SUBSET Claims /\ guideline \in [Guidelines -> Guideline]
      /\ x = Minted(g, issued, licensed)
    BY <1>1, <1>3, <1>4
<1>6. /\ x \in Ruleset
      /\ x.of = g /\ x.major = guideline[g].major
      /\ \/ x.minor = 1
         \/ \E r \in issued : /\ r.of = g /\ r.major = guideline[g].major
                              /\ r.minor + 1 = x.minor
    BY ONLY <1>5, MintedFollows
<1>7. \E r \in issued : r.major = x.major /\ r.minor + 1 = x.minor
    <2>1. CASE x.minor = 1
        <3>1. z \in issued /\ z.major = x.major /\ z.minor + 1 = x.minor
            BY <1>2, <1>3, <1>6, <2>1
        <3> QED
            BY <3>1
    <2>2. CASE x.minor # 1
        BY <1>6, <2>2
    <2> QED
        BY <2>1, <2>2
<1> QED
    BY <1>1, <1>3, <1>7 DEF Follows

\* What the watcher's transaction has compiled follows.
LEMMA WorkFollows ==
    ASSUME Typed, Versions, SweepStep
    PROVE  Follows(flushed'.minted)
<1>1. Follows(flushed.minted) /\ Follows({}) /\ Pinned
    BY DEF Versions, MintsFollow, Follows
<1>2. flushed \in Work /\ IsFiniteSet(flushed.minted)
    BY DEF Typed, PolicyTyped
<1>3. CASE Recompile
    <2>1. PICK g \in InForce :
              Onward([flushed EXCEPT !.minted = @ \cup {Minted(g, rulesets \cup @, SeenLicensed)}],
                     "auto_applied")
        BY <1>3 DEF Recompile
    <2>2. PICK x : x = Minted(g, rulesets \cup flushed.minted, SeenLicensed)
        OBVIOUS
    <2>3. flushed'.minted = flushed.minted \cup {x}
        BY <1>2, <2>1, <2>2 DEF Onward, Work
    <2>4. Follows(flushed.minted \cup {x})
        BY <1>1, <1>2, <2>2, LicensedAre, MintedInForceFollows DEF Work
    <2> QED
        BY <2>3, <2>4
<1>4. CASE AskPerson \/ VoidSignatures
    <2>1. flushed'.minted = flushed.minted
        BY <1>2, <1>4 DEF AskPerson, VoidSignatures, Onward, Work
    <2> QED
        BY <1>1, <2>1
<1>5. CASE ~(Recompile \/ AskPerson \/ VoidSignatures)
    <2>1. flushed' = flushed \/ flushed' = Nothing
        BY <1>5 DEF SweepStep, Watch, Classify, BeginSweep, FindSignatures, CommitSweep, SweepDies,
                    EndSweep
    <2> QED
        BY <1>1, <2>1, NothingTyped
<1> QED
    BY <1>3, <1>4, <1>5

\* The policy steps.
LEMMA PolicyVersions ==
    ASSUME Typed, Versions,
           SweepStep \/ \E v \in Reviewers : BeginDecision(v) \/ Decide(v) \/ DecideRefused(v)
    PROVE  Versions'
<1>1. UNCHANGED <<guideline, press>> /\ rulesets \subseteq rulesets'
    <2>1. CASE SweepStep /\ ~CommitSweep
        BY <2>1, SweepIsPrivate
    <2>2. CASE CommitSweep
        BY <2>2 DEF CommitSweep
    <2> QED
        BY <2>1, <2>2 DEF BeginDecision, Decide, DecideRefused, books
<1>2. PressTrue' /\ Published' = Published
    BY <1>1, StillTrue DEF Versions
<1>3. Pinned' /\ \A mint : Follows(mint) => Follows(mint)'
    BY <1>1, <1>2, AddingKeeps DEF Versions
<1>4. Follows({})
    BY DEF Follows
<1>5. ASSUME NEW v \in Reviewers, BeginDecision(v) \/ Decide(v) \/ DecideRefused(v)
      PROVE  flushed' = flushed
    BY <1>5 DEF BeginDecision, Decide, DecideRefused
<1>6. Follows(flushed'.minted)
    BY <1>5, WorkFollows DEF Versions, MintsFollow
<1>7. ASSUME NEW w \in Reviewers
      PROVE  Follows(inbox'[w].mint)
    <2>1. CASE inbox' = inbox
        BY <2>1 DEF Versions, MintsFollow
    <2>2. ASSUME NEW v \in Reviewers, BeginDecision(v)
          PROVE  Follows(inbox'[w].mint)
        <3>1. \/ inbox'[w] = inbox[w]
              \/ inbox'[w].mint = {}
              \/ \E g \in InForce : inbox'[w].mint = {Minted(g, rulesets, Licensed)}
            BY <2>2 DEF BeginDecision, Typed, PolicyTyped
        <3>2. ASSUME NEW g \in InForce
              PROVE  Follows({Minted(g, rulesets, Licensed)})
            <4>1. PICK x : x = Minted(g, rulesets \cup {}, Licensed)
                OBVIOUS
            <4>2. rulesets \cup {} = rulesets /\ {} \cup {x} = {x}
                OBVIOUS
            <4>3. Follows({} \cup {x})
                BY <1>4, <4>1, LicensedAre, FS_EmptySet, MintedInForceFollows DEF Versions
            <4> QED
                BY <4>1, <4>2, <4>3
        <3> QED
            BY <1>4, <3>1, <3>2 DEF Versions, MintsFollow
    <2>3. ASSUME NEW v \in Reviewers, Decide(v) \/ DecideRefused(v)
          PROVE  Follows(inbox'[w].mint)
        <3>1. inbox'[w] = inbox[w] \/ inbox'[w].mint = {}
            BY <2>3 DEF Decide, DecideRefused, NoReview, Typed, PolicyTyped
        <3> QED
            BY <1>4, <3>1 DEF Versions, MintsFollow
    <2>4. inbox' = inbox \/ \E v \in Reviewers : BeginDecision(v) \/ Decide(v) \/ DecideRefused(v)
        BY SweepIsPrivate DEF CommitSweep
    <2> QED
        BY <2>1, <2>2, <2>3, <2>4
<1>8. MintsFollow'
    BY <1>3, <1>6, <1>7 DEF MintsFollow
<1> QED
    BY <1>2, <1>3, <1>8 DEF Versions

\* A publish that is accepted, when nothing was sealed since it was compiled.
LEMMA SealIsFresh ==
    ASSUME Typed, Versions, NEW p \in Publishers, Seal(p), Accepted(p), Alone \/ Stays,
           guideline'[press[p].of].status = "published"
    PROVE  Fresh(p) /\ press[p].of \notin press[p].replaces
<1>1. press[p].step = "seal" /\ press[p].of \in Guidelines
    BY DEF Seal, Typed, BooksTyped
<1>2. press[p].of \notin press[p].replaces /\ (Fresh(p) \/ (~Alone /\ Late(p)))
    BY <1>1 DEF Versions, PressTrue
<1>3. ASSUME Stays, NEW g \in Guidelines, Sealed(g), guideline[g].major = press[p].major
      PROVE  FALSE
    <2>1. g = press[p].of
        BY <1>3 DEF Accepted
    <2>2. guideline[press[p].of].status = "superseded"
        BY <1>3, <2>1 DEF Accepted, Sealed
    <2> QED
        BY <1>1, <1>3, <2>2 DEF Stays
<1> QED
    BY <1>2, <1>3 DEF Late

\* What it writes.
LEMMA SealWrites ==
    ASSUME Typed, Versions, NEW p \in Publishers, Seal(p), Alone \/ Stays
    PROVE  \/ UNCHANGED <<guideline, rulesets>>
           \/ /\ Fresh(p) /\ press[p].of \in Guidelines
              /\ press[p].of \notin press[p].replaces
              /\ Accepted(p)
              /\ guideline'[press[p].of] = [status |-> "published", major |-> press[p].major]
              /\ \A g \in Guidelines \ {press[p].of} :
                    guideline'[g] = IF g \in press[p].replaces
                                    THEN [guideline[g] EXCEPT !.status = "superseded"]
                                    ELSE guideline[g]
              /\ rulesets' = rulesets \cup {[of |-> press[p].of, major |-> press[p].major, minor |-> 0,
                                             licensed |-> press[p].licensed]}
<1> SUFFICES ASSUME ~UNCHANGED <<guideline, rulesets>>
             PROVE  /\ Fresh(p) /\ press[p].of \in Guidelines
                    /\ press[p].of \notin press[p].replaces
                    /\ Accepted(p)
                    /\ guideline'[press[p].of] = [status |-> "published", major |-> press[p].major]
                    /\ \A g \in Guidelines \ {press[p].of} :
                          guideline'[g] = IF g \in press[p].replaces
                                          THEN [guideline[g] EXCEPT !.status = "superseded"]
                                          ELSE guideline[g]
                    /\ rulesets' = rulesets \cup {[of |-> press[p].of, major |-> press[p].major, minor |-> 0,
                                                   licensed |-> press[p].licensed]}
    OBVIOUS
<1>1. press[p].of \in Guidelines
    BY DEF Seal, Typed, BooksTyped
<1>2. /\ Accepted(p)
      /\ guideline' = [g \in Guidelines |->
            IF g = press[p].of THEN [status |-> "published", major |-> press[p].major]
            ELSE IF g \in press[p].replaces THEN [guideline[g] EXCEPT !.status = "superseded"]
            ELSE guideline[g]]
      /\ rulesets' = rulesets \cup {[of |-> press[p].of, major |-> press[p].major, minor |-> 0,
                                     licensed |-> press[p].licensed]}
    BY DEF Seal
<1>3. guideline'[press[p].of] = [status |-> "published", major |-> press[p].major]
    BY <1>1, <1>2
<1>4. Fresh(p) /\ press[p].of \notin press[p].replaces
    BY <1>2, <1>3, SealIsFresh
<1>5. \A g \in Guidelines \ {press[p].of} :
          guideline'[g] = IF g \in press[p].replaces
                          THEN [guideline[g] EXCEPT !.status = "superseded"] ELSE guideline[g]
    BY <1>2
<1> QED
    BY <1>1, <1>2, <1>3, <1>4, <1>5

\* It alone is published then.
LEMMA SealPublishes ==
    ASSUME Typed, NEW p \in Publishers, Fresh(p), press[p].of \in Guidelines,
           guideline'[press[p].of] = [status |-> "published", major |-> press[p].major],
           \A g \in Guidelines \ {press[p].of} :
               guideline'[g] = IF g \in press[p].replaces
                               THEN [guideline[g] EXCEPT !.status = "superseded"] ELSE guideline[g]
    PROVE  Published' = {press[p].of}
<1>1. ASSUME NEW g \in Guidelines \ {press[p].of}
      PROVE  guideline'[g].status # "published"
    <2>1. CASE g \in press[p].replaces
        BY <1>1, <2>1 DEF Typed, BooksTyped, Guideline
    <2>2. CASE g \notin press[p].replaces
        <3>1. g \notin Published
            BY <1>1, <2>2 DEF Fresh
        <3> QED
            BY <1>1, <2>2, <3>1 DEF Published
    <2> QED
        BY <2>1, <2>2
<1>2. guideline'[press[p].of].status = "published"
    OBVIOUS
<1> QED
    BY <1>1, <1>2 DEF Published

\* A seal makes the others late.
LEMMA SealVersions ==
    ASSUME Typed, Versions, NEW p \in Publishers, Seal(p), Alone \/ Stays
    PROVE  Versions'
<1>1. /\ press' = [press EXCEPT ![p] = Closed] /\ Closed.step = "idle"
      /\ UNCHANGED <<flushed, inbox>>
    BY DEF Seal, Closed, policy
<1>2. \A q \in Publishers : press'[q].step = "seal" => q # p /\ press'[q] = press[q]
    BY <1>1 DEF Typed, BooksTyped
<1>3. CASE UNCHANGED <<guideline, rulesets>>
    <2>1. Pinned' /\ MintsFollow'
        BY <1>1, <1>3 DEF Versions, Pinned, MintsFollow, Follows, Published
    <2>2. PressTrue'
        BY <1>2, <1>3 DEF Versions, PressTrue, Fresh, Late, Sealed, Published, NextMajor
    <2> QED
        BY <2>1, <2>2 DEF Versions
<1>4. CASE ~UNCHANGED <<guideline, rulesets>>
    <2>1. PICK of : of = press[p].of
        OBVIOUS
    <2>2. PICK new : new = [of |-> of, major |-> press[p].major, minor |-> 0, licensed |-> press[p].licensed]
        OBVIOUS
    <2>3. /\ Fresh(p) /\ of \in Guidelines
          /\ guideline'[of] = [status |-> "published", major |-> press[p].major]
          /\ \A g \in Guidelines \ {of} :
                guideline'[g] = IF g \in press[p].replaces
                                THEN [guideline[g] EXCEPT !.status = "superseded"] ELSE guideline[g]
          /\ rulesets' = rulesets \cup {new}
        BY <1>4, <2>1, <2>2, SealWrites
    <2>4. Published' = {of}
        BY <2>1, <2>3, SealPublishes
    <2>5. guideline'[of].major = press[p].major /\ guideline'[of].status = "published"
        BY <2>3
    <2>6. Pinned'
        BY <2>2, <2>3, <2>4, <2>5 DEF Pinned
    <2>7. MintsFollow'
        <3>1. ASSUME NEW mint, Follows(mint)
              PROVE  Follows(mint)'
            BY <2>3, <2>4, <3>1 DEF Follows
        <3> QED
            BY <1>1, <3>1 DEF Versions, MintsFollow
    <2>8. ASSUME NEW q \in Publishers, press'[q].step = "seal"
          PROVE  press'[q].of \notin press'[q].replaces /\ ~Alone /\ Late(q)'
        <3>1. q # p /\ press'[q] = press[q] /\ ~Alone
            BY <1>2, <2>8 DEF Alone
        <3>2. Stays
            BY <3>1
        <3>3. press[q].of \notin press[q].replaces /\ (Fresh(q) \/ Late(q))
            BY <2>8, <3>1 DEF Versions, PressTrue
        <3>4. CASE Fresh(q)
            <4>1. press[q].major = press[p].major
                BY <2>3, <3>4 DEF Fresh
            <4> QED
                BY <2>3, <2>5, <3>1, <3>3, <4>1 DEF Late, Sealed
        <3>5. CASE Late(q)
            <4>1. PICK g \in Guidelines : Sealed(g) /\ guideline[g].major = press[q].major
                BY <3>5 DEF Late
            <4>2. Sealed(g)' /\ guideline'[g].major = guideline[g].major
                <5>1. CASE g = of
                    <6>1. guideline[of].status # "published"
                        BY <1>4, <2>1, SealWrites DEF Accepted
                    <6>2. guideline[of].status = "superseded"
                        BY <4>1, <5>1, <6>1 DEF Sealed
                    <6> QED
                        BY <2>3, <2>5, <3>2, <6>2 DEF Stays
                <5>2. CASE g # of
                    <6>1. guideline[g] \in Guideline
                        BY DEF Typed, BooksTyped
                    <6>2. \/ guideline'[g] = guideline[g]
                          \/ guideline'[g] = [guideline[g] EXCEPT !.status = "superseded"]
                        BY <2>3, <5>2
                    <6> QED
                        BY <4>1, <6>1, <6>2 DEF Sealed, Guideline
                <5> QED
                    BY <5>1, <5>2
            <4> QED
                BY <3>1, <3>3, <4>1, <4>2 DEF Late
        <3> QED
            BY <3>3, <3>4, <3>5
    <2>9. PressTrue'
        BY <2>8 DEF PressTrue
    <2> QED
        BY <2>6, <2>7, <2>9 DEF Versions
<1> QED
    BY <1>3, <1>4

\* A run starts when no request is in flight, and changes no version that counts.
LEMMA RunVersions ==
    ASSUME Typed, Versions, NEW g \in Guidelines, Draft(g) \/ Ready(g)
    PROVE  /\ Versions'
           /\ Published' = Published /\ \A h \in Published : guideline'[h] = guideline[h]
<1>1. UNCHANGED <<rulesets, press, flushed, inbox>>
    BY DEF Draft, Ready, policy
<1>2. /\ \A h \in Guidelines \ {g} : guideline'[h] = guideline[h]
      /\ guideline[g].status # "published" /\ guideline'[g].status # "published"
    BY DEF Draft, Ready, Typed, BooksTyped, Guideline
<1>3. Published' = Published /\ \A h \in Published : guideline'[h] = guideline[h]
    BY <1>2 DEF Published
<1>4. Pinned' /\ \A mint : Follows(mint) => Follows(mint)'
    BY <1>1, <1>3, AddingKeeps DEF Versions
<1>5. MintsFollow'
    BY <1>1, <1>4 DEF Versions, MintsFollow
<1>6. CASE Draft(g)
    BY <1>1, <1>3, <1>4, <1>5, <1>6 DEF Draft, Versions, PressTrue
<1>7. CASE Ready(g)
    <2>1. \A h \in Guidelines : guideline'[h].major = guideline[h].major
        BY <1>7 DEF Ready, Typed, BooksTyped, Guideline
    <2>2. NextMajor' = NextMajor
        BY <2>1 DEF NextMajor
    <2>3. \A h \in Guidelines : Sealed(h) => h # g
        BY <1>7 DEF Ready, Sealed
    <2>4. \A h \in Guidelines : Sealed(h) => Sealed(h)'
        BY <1>2, <2>3 DEF Sealed
    <2>5. \A q \in Publishers : (Fresh(q) => Fresh(q)') /\ (Late(q) => Late(q)')
        BY <1>1, <1>3, <2>1, <2>2, <2>4 DEF Fresh, Late
    <2>6. PressTrue'
        BY <1>1, <2>5 DEF Versions, PressTrue
    <2> QED
        BY <1>3, <1>4, <1>5, <2>6 DEF Versions
<1> QED
    BY <1>6, <1>7

\* What has just been compiled is fresh.
LEMMA CompileVersions ==
    ASSUME Typed, Versions, NEW p \in Publishers, BeginPublish(p) \/ Compile(p)
    PROVE  Versions'
<1>1. UNCHANGED <<guideline, rulesets, flushed, inbox>>
    BY DEF BeginPublish, Compile, policy
<1>2. Pinned' /\ MintsFollow'
    BY <1>1 DEF Versions, Pinned, MintsFollow, Follows, Published
<1>3. NextMajor' = NextMajor /\ Published' = Published
    BY <1>1 DEF NextMajor, Published
<1>4. \A q \in Publishers \ {p} : press'[q] = press[q]
    BY DEF BeginPublish, Compile, Typed, BooksTyped
<1>5. \A q \in Publishers \ {p} : (Fresh(q) => Fresh(q)') /\ (Late(q) => Late(q)')
    BY <1>1, <1>3, <1>4 DEF Fresh, Late, Sealed
<1>6. ASSUME press'[p].step = "seal"
      PROVE  press'[p].of \notin press'[p].replaces /\ Fresh(p)'
    <2>1. PICK of : of = press[p].of
        OBVIOUS
    <2>2. press'[p] = [step |-> "seal", of |-> of, major |-> NextMajor,
                       licensed |-> Licensed, replaces |-> Published \ {of}]
        <3>1. DOMAIN press = Publishers
            BY DEF Typed, BooksTyped
        <3>2. ~BeginPublish(p)
            BY <1>6, <3>1 DEF BeginPublish, Closed
        <3>3. Compile(p) /\ press' # [press EXCEPT ![p] = Closed]
            BY <1>6, <3>1, <3>2 DEF Closed
        <3> QED
            BY <2>1, <3>1, <3>3 DEF Compile
    <2>3. press'[p].of = of /\ press'[p].major = NextMajor /\ press'[p].replaces = Published \ {of}
        BY <2>2
    <2> QED
        BY <1>3, <2>3 DEF Fresh
<1>7. PressTrue'
    BY <1>4, <1>5, <1>6 DEF Versions, PressTrue
<1> QED
    BY <1>2, <1>7 DEF Versions

\* What is not read is not changed.
LEMMA OtherVersions ==
    ASSUME Versions, UNCHANGED <<guideline, rulesets, press, flushed, inbox>>
    PROVE  Versions'
<1>1. PressTrue'
    BY StillTrue DEF Versions
<1> QED
    BY <1>1 DEF Versions, Pinned, MintsFollow, Follows, Published

\* Every step keeps it, if one person publishes or what is superseded stays so.
LEMMA VersionsKept ==
    ASSUME Typed, Versions, [Next]_vars, Alone \/ Stays
    PROVE  Versions'
<1>1. ASSUME Unread \/ UNCHANGED vars
      PROVE  Versions'
    BY <1>1, OtherVersions DEF Unread, books, policy, vars
<1> QED
    BY <1>1, RunVersions, CompileVersions, SealVersions, PolicyVersions DEF Next, SweepStep

-----------------------------------------------------------------------------

(* Publication implements Rulebook                                           *)

\* A step that leaves what is in force and what was issued is a stutter.
LEMMA Stutters ==
    ASSUME Published' = Published, \A g \in Published : guideline'[g] = guideline[g], rulesets' = rulesets
    PROVE  InForceNow' = InForceNow /\ IssuedNow' = IssuedNow
BY DEF InForceNow, IssuedNow

\* Minors are added to the rulesets.
LEMMA AddsMinors ==
    ASSUME Typed, NEW mint \in SUBSET Ruleset, Follows(mint), UNCHANGED guideline,
           rulesets' = rulesets \cup mint
    PROVE  Book!Amend \/ (InForceNow' = InForceNow /\ IssuedNow' = IssuedNow)
<1>1. InForceNow' = InForceNow
    BY DEF InForceNow, Published
<1>2. CASE mint = {}
    BY <1>1, <1>2 DEF IssuedNow
<1>3. CASE mint # {}
    <2>1. InForceNow # {}
        BY <1>3 DEF Follows, InForceNow
    <2>2. IssuedNow \subseteq IssuedNow'
        BY DEF IssuedNow
    <2>3. ASSUME NEW pin \in IssuedNow' \ IssuedNow
          PROVE  pin[2] > 0 /\ <<pin[1], pin[2] - 1>> \in IssuedNow'
        <3>1. PICK x \in mint : pin = <<x.major, x.minor>>
            BY DEF IssuedNow
        <3>2. PICK r \in rulesets' : r.major = x.major /\ r.minor + 1 = x.minor
            BY DEF Follows
        <3>3. r.minor \in Nat /\ x.minor \in Nat
            BY DEF Typed, BooksTyped, Ruleset
        <3>4. pin[1] = r.major /\ pin[2] = r.minor + 1
            BY <3>1, <3>2
        <3>5. pin[2] > 0 /\ pin[2] - 1 = r.minor
            BY <3>3, <3>4
        <3>6. <<r.major, r.minor>> \in IssuedNow'
            BY DEF IssuedNow
        <3> QED
            BY <3>4, <3>5, <3>6
    <2> QED
        BY <1>1, <2>1, <2>2, <2>3 DEF Book!Amend, InForceNow, IssuedNow
<1> QED
    BY <1>2, <1>3

\* A seal puts a higher version in force, and nothing else.
LEMMA SealMaps ==
    ASSUME Typed, Versions, NEW p \in Publishers, Seal(p), Alone \/ Stays
    PROVE  Book!Publish \/ (InForceNow' = InForceNow /\ IssuedNow' = IssuedNow)
<1>1. CASE UNCHANGED <<guideline, rulesets>>
    BY <1>1 DEF InForceNow, IssuedNow, Published
<1>2. CASE ~UNCHANGED <<guideline, rulesets>>
    <2>1. PICK of : of = press[p].of
        OBVIOUS
    <2>2. PICK v : v = press[p].major
        OBVIOUS
    <2>3. PICK new : new = [of |-> of, major |-> v, minor |-> 0, licensed |-> press[p].licensed]
        OBVIOUS
    <2>4. /\ Fresh(p) /\ of \in Guidelines
          /\ guideline'[of] = [status |-> "published", major |-> v]
          /\ \A g \in Guidelines \ {of} :
                guideline'[g] = IF g \in press[p].replaces
                                THEN [guideline[g] EXCEPT !.status = "superseded"] ELSE guideline[g]
          /\ rulesets' = rulesets \cup {new}
        BY <1>2, <2>1, <2>2, <2>3, SealWrites
    <2>5. Published' = {of}
        BY <2>1, <2>2, <2>4, SealPublishes
    <2>6. InForceNow' = {v}
        BY <2>4, <2>5 DEF InForceNow
    <2>7. IssuedNow' = IssuedNow \cup {<<v, 0>>}
        BY <2>3, <2>4 DEF IssuedNow
    <2>8. \A u \in InForceNow : u < v
        BY <2>2, <2>4, NextMajorIsAbove DEF Fresh, InForceNow, Published, Typed, BooksTyped
    <2> QED
        BY <2>6, <2>7, <2>8 DEF Book!Publish, InForceNow, IssuedNow
<1> QED
    BY <1>1, <1>2

\* Every step is one of the rulebook, or none.
LEMMA StepMaps ==
    ASSUME Typed, Versions, [Next]_vars, Alone \/ Stays
    PROVE  Book!Publish \/ Book!Amend \/ (InForceNow' = InForceNow /\ IssuedNow' = IssuedNow)
<1>1. ASSUME UNCHANGED <<guideline, rulesets>>
      PROVE  InForceNow' = InForceNow /\ IssuedNow' = IssuedNow
    BY <1>1 DEF InForceNow, IssuedNow, Published
<1>2. ASSUME Unread \/ UNCHANGED vars
      PROVE  UNCHANGED <<guideline, rulesets>>
    BY <1>2 DEF Unread, books, vars
<1>3. ASSUME NEW g \in Guidelines, Draft(g) \/ Ready(g)
      PROVE  InForceNow' = InForceNow /\ IssuedNow' = IssuedNow
    <2>1. rulesets' = rulesets
        BY <1>3 DEF Draft, Ready
    <2> QED
        BY <1>3, <2>1, RunVersions, Stutters
<1>4. ASSUME NEW p \in Publishers, BeginPublish(p) \/ Compile(p)
      PROVE  UNCHANGED <<guideline, rulesets>>
    BY <1>4 DEF BeginPublish, Compile
<1>5. ASSUME SweepStep, ~CommitSweep
      PROVE  UNCHANGED <<guideline, rulesets>>
    BY <1>5, SweepIsPrivate
<1>6. CASE CommitSweep
    <2>1. UNCHANGED guideline /\ rulesets' = rulesets \cup flushed.minted /\ Follows(flushed.minted)
        BY <1>6 DEF CommitSweep, Versions, MintsFollow
    <2>2. flushed.minted \in SUBSET Ruleset
        BY DEF Typed, PolicyTyped, Work
    <2> QED
        BY <2>1, <2>2, AddsMinors
<1>7. ASSUME NEW v \in Reviewers, BeginDecision(v) \/ DecideRefused(v)
      PROVE  UNCHANGED <<guideline, rulesets>>
    BY <1>7 DEF BeginDecision, DecideRefused, books
<1>8. ASSUME NEW v \in Reviewers, Decide(v)
      PROVE  Book!Amend \/ (InForceNow' = InForceNow /\ IssuedNow' = IssuedNow)
    <2>1. UNCHANGED guideline /\ rulesets' = rulesets \cup inbox[v].mint /\ Follows(inbox[v].mint)
        BY <1>8 DEF Decide, Versions, MintsFollow
    <2>2. inbox[v].mint \in SUBSET Ruleset
        BY DEF Typed, PolicyTyped, Decision
    <2> QED
        BY <2>1, <2>2, AddsMinors
<1> QED
    BY <1>1, <1>2, <1>3, <1>4, <1>5, <1>6, <1>7, <1>8, SealMaps DEF Next, SweepStep

\* Nothing is published yet.
LEMMA InitMaps == Init => Versions /\ Book!Init
<1> SUFFICES ASSUME Init PROVE Versions /\ Book!Init
    OBVIOUS
<1>1. Published = {} /\ rulesets = {}
    BY DEF Init, Published
<1>2. Versions
    BY <1>1 DEF Init, Closed, Nothing, NoReview, Versions, PressTrue, Pinned, MintsFollow, Follows
<1>3. Book!Init
    BY <1>1 DEF Book!Init
<1> QED
    BY <1>2, <1>3

\* One person who publishes keeps the rulebook, beside any watcher and any
\* reviewers: one version is in force, versions go up, minors follow one another
\* (publish.py, versions.py next_major, policy/lifecycle.py mint_minor).
THEOREM OnePublisherKeepsRulebook == Alone => (Spec => RulebookKept)
<1> SUFFICES ASSUME Alone PROVE Spec => RulebookKept
    OBVIOUS
<1>1. Typed /\ Versions /\ [Next]_vars => Versions'
    BY VersionsKept
<1>2. Typed /\ Versions /\ [Next]_vars
          => [Book!Publish \/ Book!Amend]_<<InForceNow, IssuedNow>>
    BY StepMaps
<1> QED
    BY <1>1, <1>2, InitTyped, NextTyped, InitMaps, PTL
    DEF Spec, RulebookKept, Book!Spec, InForceNow, IssuedNow

\* Any number of people keep it if a superseded rulebook is never written again,
\* whatever the order in which their requests read, compile and seal.
THEOREM PublishersKeepRulebook == Spec /\ SupersededStays => RulebookKept
<1>1. [Next]_vars /\ [Stays]_vars => (Alone \/ Stays)
    BY DEF vars, Stays
<1>2. Typed /\ Versions /\ [Next]_vars /\ [Stays]_vars => Versions'
    BY <1>1, VersionsKept
<1>3. Typed /\ Versions /\ [Next]_vars /\ [Stays]_vars
          => [Book!Publish \/ Book!Amend]_<<InForceNow, IssuedNow>>
    BY <1>1, StepMaps
<1> QED
    BY <1>2, <1>3, InitTyped, NextTyped, InitMaps, PTL
    DEF Spec, SupersededStays, Stays, RulebookKept, Book!Spec, InForceNow, IssuedNow

-----------------------------------------------------------------------------

(* What is voided is sent back                                               *)

MadeIds == {s \in Ids : Made(s)}

\* A withdrawal in flight knows every claim its signatures still govern, and will
\* write that they govern it no longer.
Knows(a) ==
    /\ desk[a].sigs \subseteq MadeIds
    /\ \A c \in Claims : claim[c].sig \in desk[a].sigs =>
          /\ desk[a].step \in {"revoke", "reassign"} => c \in desk[a].about /\ desk[a].saw[c].sig # NoId
          /\ desk[a].step = "matrix" => c \in desk[a].about

Governed == SignaturesStand /\ \A a \in Actors : Knows(a)

\* Claims change hands only from a signature to none, or to a new one.
LEMMA HandsKnown ==
    ASSUME Typed, NEW a \in Actors, Knows(a), desk'[a] = desk[a],
           MadeIds \subseteq MadeIds',
           \A c \in Claims : \/ claim'[c].sig \in {claim[c].sig, NoId}
                             \/ claim'[c].sig \notin MadeIds
    PROVE  Knows(a)'
<1>1. NoId \notin MadeIds
    BY IdsAre DEF MadeIds
<1>2. \A c \in Claims : claim'[c].sig \in desk[a].sigs => claim'[c].sig = claim[c].sig
    BY <1>1 DEF Knows
<1> QED
    BY <1>2 DEF Knows

\* An idle desk has nothing to know.
LEMMA IdleKnows ==
    ASSUME Typed, NEW a \in Actors, Done(a)
    PROVE  /\ Knows(a)'
           /\ \A b \in Actors \ {a} : desk'[b] = desk[b]
<1>1. desk'[a] = Idle /\ Idle.sigs = {} /\ \A b \in Actors \ {a} : desk'[b] = desk[b]
    BY DEF Done, Idle, Typed, RegisterTyped
<1> QED
    BY <1>1 DEF Knows

\* What a request reads, it knows.
LEMMA BeginsGoverned ==
    ASSUME Typed, Governed, NEW a \in Actors,
           \/ BeginHarvest(a) \/ BeginEdit(a) \/ BeginSign(a) \/ BeginRevoke(a) \/ BeginReassign(a)
           \/ BeginMatrix(a)
    PROVE  Governed'
<1>1. UNCHANGED <<claim, signature>> /\ DOMAIN desk = Actors
    BY DEF BeginHarvest, BeginEdit, BeginSign, BeginRevoke, BeginReassign, BeginMatrix, register,
           Typed, RegisterTyped
<1>2. SignaturesStand' /\ MadeIds' = MadeIds
    BY <1>1 DEF Governed, SignaturesStand, Standing, Made, MadeIds
<1>3. ASSUME NEW request, Begin(a, request),
             request.sigs = {} \/ /\ request.sigs \subseteq MadeIds
                                  /\ request.about = {c \in Claims : claim[c].sig \in request.sigs}
                                  /\ request.saw = claim \/ request.step = "matrix"
      PROVE  Governed'
    <2>1. desk'[a] = request /\ \A b \in Actors \ {a} : desk'[b] = desk[b]
        BY <1>1, <1>3 DEF Begin
    <2>2. ASSUME NEW b \in Actors \ {a}
          PROVE  Knows(b)'
        BY <1>1, <1>2, <2>1 DEF Governed, Knows
    <2>3. NoId \notin MadeIds
        BY IdsAre DEF MadeIds
    <2>4. Knows(a)'
        BY <1>1, <1>2, <1>3, <2>1, <2>3 DEF Knows
    <2> QED
        BY <1>2, <2>2, <2>4 DEF Governed
<1>4. \A p : SignedBy(p) \subseteq MadeIds
    BY DEF SignedBy, Standing, MadeIds
<1>5. CASE BeginHarvest(a)
    <2>1. PICK C : Begin(a, Ask("harvest", C))
        BY <1>5 DEF BeginHarvest
    <2>2. Ask("harvest", C).sigs = {}
        BY DEF Ask, Call, Idle
    <2> QED
        BY <1>3, <2>1, <2>2
<1>6. CASE BeginEdit(a)
    <2>1. PICK c : Begin(a, Call("edit", {c}))
        BY <1>6 DEF BeginEdit
    <2>2. Call("edit", {c}).sigs = {}
        BY DEF Call, Idle
    <2> QED
        BY <1>3, <2>1, <2>2
<1>7. CASE BeginSign(a)
    <2>1. PICK C, A : Begin(a, [Ask("sign", C) EXCEPT !.yes = A])
        BY <1>7 DEF BeginSign
    <2>2. [Ask("sign", C) EXCEPT !.yes = A].sigs = {}
        BY DEF Ask, Call, Idle
    <2> QED
        BY <1>3, <2>1, <2>2
<1>8. CASE BeginRevoke(a)
    <2>1. PICK s, C, request :
              /\ s \in MadeIds /\ C = {d \in Claims : claim[d].sig = s}
              /\ request = [Ask("revoke", C) EXCEPT !.sigs = {s}]
              /\ Begin(a, request)
        <3>1. PICK c \in Claims :
                  /\ claim[c].sig # NoId /\ Standing(claim[c].sig)
                  /\ Begin(a, [Ask("revoke", {d \in Claims : claim[d].sig = claim[c].sig})
                                 EXCEPT !.sigs = {claim[c].sig}])
            BY <1>8 DEF BeginRevoke
        <3>2. claim[c].sig \in MadeIds
            BY <3>1 DEF Row, MadeIds, Standing, Typed, RegisterTyped
        <3> QED
            BY <3>1, <3>2
    <2>2. request.sigs = {s} /\ request.about = C /\ request.saw = claim
        BY <2>1 DEF Ask, Call, Idle
    <2>3. C = {d \in Claims : claim[d].sig \in {s}}
        BY <2>1
    <2> QED
        BY <1>3, <2>1, <2>2, <2>3
<1>9. CASE BeginReassign(a)
    <2>1. PICK p, C, request :
              /\ C = {c \in Claims : claim[c].sig \in SignedBy(p)}
              /\ request = [Ask("reassign", C) EXCEPT !.sigs = SignedBy(p)]
              /\ Begin(a, request)
        BY <1>9 DEF BeginReassign
    <2>2. request.sigs = SignedBy(p) /\ request.about = C /\ request.saw = claim
        BY <2>1 DEF Ask, Call, Idle
    <2> QED
        BY <1>3, <1>4, <2>1, <2>2
<1>10. CASE BeginMatrix(a)
    <2>1. PICK p, C :
              /\ C = {c \in Claims : claim[c].sig \in SignedBy(owner)}
              /\ \/ Begin(a, [Call("first matrix", {}) EXCEPT !.who = p])
                 \/ Begin(a, [Call("matrix", C) EXCEPT !.sigs = SignedBy(owner), !.who = p])
        BY <1>10 DEF BeginMatrix
    <2>2. CASE Begin(a, [Call("first matrix", {}) EXCEPT !.who = p])
        <3>1. [Call("first matrix", {}) EXCEPT !.who = p].sigs = {}
            BY DEF Call, Idle
        <3> QED
            BY <1>3, <2>2, <3>1
    <2>3. ASSUME NEW request,
                 request = [Call("matrix", C) EXCEPT !.sigs = SignedBy(owner), !.who = p],
                 Begin(a, request)
          PROVE  Governed'
        <3>1. request.sigs = SignedBy(owner) /\ request.about = C /\ request.step = "matrix"
            BY <2>3 DEF Call, Idle
        <3> QED
            BY <1>3, <1>4, <2>1, <2>3, <3>1
    <2> QED
        BY <2>1, <2>2, <2>3
<1> QED
    BY <1>5, <1>6, <1>7, <1>8, <1>9, <1>10

\* A step that touches no signature and moves no claim.
LEMMA StillGoverned ==
    ASSUME Typed, Governed, NEW a \in Actors, Done(a), UNCHANGED signature,
           \A c \in Claims : claim'[c].sig = claim[c].sig
    PROVE  Governed'
<1>1. SignaturesStand' /\ MadeIds' = MadeIds
    BY DEF Governed, SignaturesStand, Standing, Made, MadeIds
<1>2. Knows(a)' /\ \A b \in Actors \ {a} : desk'[b] = desk[b]
    BY IdleKnows
<1>3. \A b \in Actors \ {a} : Knows(b)'
    BY <1>1, <1>2, HandsKnown DEF Governed
<1> QED
    BY <1>1, <1>2, <1>3 DEF Governed

\* A withdrawal voids what it sends back from.
LEMMA VoidGoverned ==
    ASSUME Typed, Governed, NEW a \in Actors, Done(a), Void(desk[a].sigs),
           \A c \in Claims : /\ claim'[c].sig \in {claim[c].sig, NoId}
                             /\ claim[c].sig \in desk[a].sigs => claim'[c].sig = NoId
    PROVE  Governed'
<1>1. ASSUME NEW t \in Ids
      PROVE  /\ Made(t)' = Made(t)
             /\ t \notin desk[a].sigs /\ Standing(t) => Standing(t)'
    <2>1. signature[t] \in Signature
        BY DEF Typed, RegisterTyped
    <2>2. signature'[t] = [signature[t] EXCEPT !.voided = @ \/ t \in desk[a].sigs]
        BY DEF Void
    <2>3. signature'[t].signer = signature[t].signer
        BY <2>1, <2>2 DEF Signature
    <2>4. t \notin desk[a].sigs => signature'[t].voided = signature[t].voided
        BY <2>1, <2>2 DEF Signature
    <2> QED
        BY <2>3, <2>4 DEF Made, Standing
<1>2. MadeIds' = MadeIds
    BY <1>1 DEF MadeIds
<1>3. SignaturesStand'
    <2>1. ASSUME NEW c \in Claims, NEW t, t = claim'[c].sig, t # NoId
          PROVE  Standing(t)'
        <3>1. t = claim[c].sig /\ t \notin desk[a].sigs
            BY <2>1
        <3>2. t \in Ids /\ Standing(t)
            BY <2>1, <3>1 DEF Governed, SignaturesStand, Typed, RegisterTyped, Row
        <3> QED
            BY <1>1, <3>1, <3>2
    <2> QED
        BY <2>1 DEF SignaturesStand, Standing, Made
<1>4. Knows(a)' /\ \A b \in Actors \ {a} : desk'[b] = desk[b]
    BY IdleKnows
<1>5. \A b \in Actors \ {a} : Knows(b)'
    BY <1>2, <1>4, HandsKnown DEF Governed
<1> QED
    BY <1>3, <1>4, <1>5 DEF Governed

\* A new signature has a number no withdrawal knows.
LEMMA SignGoverned ==
    ASSUME Typed, Governed, NEW a \in Actors, Sign(a)
    PROVE  Governed'
<1>1. PICK s \in Ids :
          /\ ~Made(s)
          /\ signature' = [signature EXCEPT ![s] = [NoDecision EXCEPT
                              !.signer = a, !.covers = desk[a].about, !.approves = desk[a].yes,
                              !.words = Wording(desk[a].about, desk[a].saw)]]
          /\ claim' = Decided(desk[a], s)
    BY DEF Sign
<1>2. Standing(s)' /\ \A t \in Ids \ {s} : signature'[t] = signature[t]
    <2>1. PICK new : new = [NoDecision EXCEPT
              !.signer = a, !.covers = desk[a].about, !.approves = desk[a].yes,
              !.words = Wording(desk[a].about, desk[a].saw)]
        OBVIOUS
    <2>2. new.signer = a /\ ~new.voided
        BY <2>1 DEF NoDecision
    <2>3. signature'[s] = new /\ \A t \in Ids \ {s} : signature'[t] = signature[t]
        BY <1>1, <2>1 DEF Typed, RegisterTyped
    <2> QED
        BY <2>2, <2>3, RegisterAssumption DEF Standing, Made
<1>3. \A c \in Claims : claim'[c].sig \in {claim[c].sig, s}
    BY <1>1 DEF Decided, WriteRow, Column, Typed, RegisterTyped, Row
<1>4. s \notin MadeIds /\ MadeIds \subseteq MadeIds'
    BY <1>1, <1>2 DEF MadeIds, Made
<1>5. SignaturesStand'
    <2>1. ASSUME NEW c \in Claims, NEW t, t = claim'[c].sig, t # NoId, t # s
          PROVE  Standing(t)'
        <3>1. t = claim[c].sig /\ t \in Ids \ {s} /\ Standing(t)
            BY <1>3, <2>1 DEF Governed, SignaturesStand, Typed, RegisterTyped, Row
        <3> QED
            BY <1>2, <3>1 DEF Standing, Made
    <2> QED
        BY <1>2, <2>1 DEF SignaturesStand, Standing, Made
<1>6. Knows(a)' /\ \A b \in Actors \ {a} : desk'[b] = desk[b]
    BY IdleKnows DEF Sign
<1>7. ASSUME NEW b \in Actors \ {a}
      PROVE  Knows(b)'
    <2>1. \A c \in Claims : claim'[c].sig \in {claim[c].sig, NoId} \/ claim'[c].sig \notin MadeIds
        BY <1>3, <1>4
    <2> QED
        BY <1>4, <1>6, <2>1, HandsKnown DEF Governed
<1> QED
    BY <1>5, <1>6, <1>7 DEF Governed

\* What a request writes.
LEMMA WritesGoverned ==
    ASSUME Typed, Governed, NEW a \in Actors,
           \/ Harvest(a) \/ Edit(a) \/ Sign(a) \/ Withdraw(a) \/ PutMatrix(a) \/ FirstMatrix(a)
    PROVE  Governed'
<1>t. claim \in [Claims -> Row] /\ Knows(a)
    BY DEF Typed, RegisterTyped, Governed
<1>1. CASE Harvest(a)
    <2>1. PICK verdict, moved :
              claim' = [c \in Claims |-> IF c \in desk[a].about
                                         THEN Harvested(c, desk[a].saw, verdict, moved) ELSE claim[c]]
        BY <1>1 DEF Harvest
    <2>2. \A c \in Claims : claim'[c].sig = claim[c].sig
        BY <1>t, <2>1 DEF Harvested, Row
    <2> QED
        BY <1>1, <2>2, StillGoverned DEF Harvest
<1>2. CASE Edit(a)
    <2>1. \A c \in Claims : claim'[c].sig = claim[c].sig
        BY <1>t, <1>2 DEF Edit, Row
    <2> QED
        BY <1>2, <2>1, StillGoverned DEF Edit
<1>3. CASE Sign(a)
    BY <1>3, SignGoverned
<1>4. CASE Withdraw(a)
    <2>1. /\ Void(desk[a].sigs) /\ Done(a) /\ claim' = SentBack(desk[a].about, desk[a].saw)
          /\ desk[a].step \in {"revoke", "reassign"}
        BY <1>4 DEF Withdraw, At
    <2>2. ASSUME NEW c \in Claims
          PROVE  /\ claim'[c].sig \in {claim[c].sig, NoId}
                 /\ claim[c].sig \in desk[a].sigs => claim'[c].sig = NoId
        <3>1. CASE c \in desk[a].about
            <4>1. claim'[c].sig = Column(claim[c].sig, desk[a].saw[c].sig, NoId)
                BY <1>t, <2>1, <3>1 DEF SentBack, WriteRow, Row
            <4> QED
                BY <1>t, <2>1, <4>1 DEF Column, Knows
        <3>2. CASE c \notin desk[a].about
            <4>1. claim'[c] = claim[c]
                BY <2>1, <3>2 DEF SentBack
            <4> QED
                BY <1>t, <2>1, <3>2, <4>1 DEF Knows
        <3> QED
            BY <3>1, <3>2
    <2> QED
        BY <2>1, <2>2, VoidGoverned
<1>5. CASE PutMatrix(a)
    <2>1. /\ Void(desk[a].sigs) /\ Done(a) /\ desk[a].step = "matrix"
          /\ claim' = [c \in Claims |-> IF c \in desk[a].about
                        THEN [claim[c] EXCEPT !.status = "pending_signoff", !.sig = NoId]
                        ELSE claim[c]]
        BY <1>5 DEF PutMatrix, At
    <2>2. ASSUME NEW c \in Claims
          PROVE  /\ claim'[c].sig \in {claim[c].sig, NoId}
                 /\ claim[c].sig \in desk[a].sigs => claim'[c].sig = NoId
        <3>1. claim'[c].sig = IF c \in desk[a].about THEN NoId ELSE claim[c].sig
            BY <1>t, <2>1 DEF Row
        <3> QED
            BY <1>t, <2>1, <3>1 DEF Knows
    <2> QED
        BY <2>1, <2>2, VoidGoverned
<1>6. CASE FirstMatrix(a)
    BY <1>6, StillGoverned DEF FirstMatrix
<1> QED
    BY <1>1, <1>2, <1>3, <1>4, <1>5, <1>6

\* An expiry voids nothing.
LEMMA LapseGoverned ==
    ASSUME Typed, Governed, NEW s \in Ids, Lapse(s)
    PROVE  Governed'
<1>1. ASSUME NEW t \in Ids
      PROVE  signature'[t].signer = signature[t].signer /\ signature'[t].voided = signature[t].voided
    BY DEF Lapse, Typed, RegisterTyped, Signature
<1>2. UNCHANGED <<claim, desk>>
    BY DEF Lapse
<1>3. \A c \in Claims : claim[c].sig # NoId => claim[c].sig \in Ids
    BY DEF Typed, RegisterTyped, Row
<1>4. SignaturesStand'
    BY <1>1, <1>2, <1>3 DEF Governed, SignaturesStand, Standing, Made
<1>5. MadeIds' = MadeIds
    BY <1>1 DEF MadeIds, Made
<1> QED
    BY <1>2, <1>4, <1>5 DEF Governed, Knows

\* What leaves the register and the requests leaves it governed.
LEMMA ElseGoverned ==
    ASSUME Governed, UNCHANGED <<claim, signature, desk>>
    PROVE  Governed'
<1>1. MadeIds' = MadeIds
    BY DEF MadeIds, Made
<1> QED
    BY <1>1 DEF Governed, Knows, SignaturesStand, Standing, Made

\* Without the watcher no claim is ever left under a voided signature, however
\* many people sign, revoke, reassign and change the matrix over rows they read
\* earlier (routes_claims.py, routes_governance.py).
THEOREM VoidedGovernNothing == Amendments = {} => (Spec => []SignaturesStand)
<1> SUFFICES ASSUME Amendments = {} PROVE Spec => []SignaturesStand
    OBVIOUS
<1> DEFINE Quiet == Governed /\ sweep.step = "idle"
<1>1. Init => Quiet
    <2> SUFFICES ASSUME Init PROVE Quiet
        OBVIOUS
    <2>1. \A c \in Claims : claim[c].sig = NoId
        BY DEF Init, RegisterInit, EmptyRegister
    <2>2. \A a \in Actors : desk[a].sigs = {}
        BY DEF Init, RegisterInit, Idle
    <2> QED
        BY <2>1, <2>2 DEF Init, NoSweep, Governed, SignaturesStand, Knows
<1>2. Typed /\ Quiet /\ [Next]_vars => Quiet'
    <2> SUFFICES ASSUME Typed, Governed, sweep.step = "idle", [Next]_vars
                 PROVE  Governed' /\ sweep'.step = "idle"
        OBVIOUS
    <2>1. ASSUME UNCHANGED <<claim, signature, desk, sweep>>
          PROVE  Governed' /\ sweep'.step = "idle"
        BY <2>1, ElseGoverned
    <2>2. ASSUME NEW a \in Actors, Unread,
                 \/ BeginHarvest(a) \/ BeginEdit(a) \/ BeginSign(a) \/ BeginRevoke(a) \/ BeginReassign(a)
                 \/ BeginMatrix(a)
          PROVE  Governed' /\ sweep'.step = "idle"
        BY <2>2, BeginsGoverned DEF Unread, policy
    <2>3. ASSUME NEW a \in Actors, Unread,
                 \/ Harvest(a) \/ Edit(a) \/ Sign(a) \/ Withdraw(a) \/ PutMatrix(a) \/ FirstMatrix(a)
          PROVE  Governed' /\ sweep'.step = "idle"
        BY <2>3, WritesGoverned DEF Unread, policy
    <2>4. ASSUME NEW s \in Ids, Lapse(s), Unread
          PROVE  Governed' /\ sweep'.step = "idle"
        BY <2>4, LapseGoverned DEF Unread, policy
    <2>5. ASSUME NEW g \in Guidelines, Draft(g) \/ Ready(g)
          PROVE  UNCHANGED <<claim, signature, desk, sweep>>
        BY <2>5 DEF Draft, Ready, register, policy
    <2>6. ASSUME NEW p \in Publishers, BeginPublish(p) \/ Compile(p) \/ Seal(p)
          PROVE  UNCHANGED <<claim, signature, desk, sweep>>
        BY <2>6 DEF BeginPublish, Compile, Seal, register, policy
    <2>7. ~SweepStep
        BY DEF SweepStep, BeginSweep, Recompile, AskPerson, FindSignatures, VoidSignatures,
               CommitSweep, SweepDies
    <2>8. ASSUME NEW r \in Reviewers, BeginDecision(r) \/ Decide(r) \/ DecideRefused(r)
          PROVE  UNCHANGED <<claim, signature, desk, sweep>>
        BY <2>8 DEF BeginDecision, Decide, DecideRefused, register
    <2> QED
        BY <2>1, <2>2, <2>3, <2>4, <2>5, <2>6, <2>7, <2>8 DEF Next, SweepStep, vars
<1>3. Quiet => SignaturesStand
    BY DEF Governed
<1> QED
    BY <1>1, <1>2, <1>3, InitTyped, NextTyped, PTL DEF Spec

=============================================================================
