---------------------------- MODULE ClaimsRegister ----------------------------
(***************************************************************************)
(* The claims register of one project and the signatures over it            *)
(* (routes_claims.py, routes_governance.py, guidelines/register.py). Every   *)
(* request is a transaction at READ COMMITTED: it reads, then commits what it *)
(* made of what it read, writing only the columns it changed; nothing locks a *)
(* claim. Everybody has one request in flight.                               *)
(***************************************************************************)
EXTENDS Naturals

CONSTANTS
    Claims,
    Actors,           \* the people and the guideline run that write the register
    Duties,           \* the requests each of them may send
    NoOne,
    MaxSignatures,    \* bound: signatures made
    MaxWordings       \* bound: how often the wording of a claim changes

ASSUME RegisterAssumption ==
    NoOne \notin Actors /\ MaxSignatures \in Nat /\ MaxWordings \in Nat

VARIABLES
    claim,       \* the claim_record rows
    signature,   \* the claim_signature rows
    owner,       \* the legal owner the current sign-off matrix names
    desk         \* the request in flight at each actor, with what it has read

register == <<claim, signature, owner>>

Ids == 1 .. MaxSignatures
NoId == 0

Statuses == {"absent", "unsupported", "pending_signoff", "approved", "rejected"}
Reharvestable == {"unsupported", "pending_signoff"}

Rows == [Claims -> [status : Statuses, words : Nat, sig : Ids \cup {NoId}]]

EmptyRegister == [c \in Claims |-> [status |-> "absent", words |-> 0, sig |-> NoId]]
NoDecision == [signer |-> NoOne, covers |-> {}, approves |-> {},
               words |-> [c \in Claims |-> 0], voided |-> FALSE, lapsed |-> FALSE]
Idle == [step |-> "idle", saw |-> EmptyRegister, about |-> {}, yes |-> {}, sigs |-> {}, who |-> NoOne]

RegisterInit ==
    /\ claim = EmptyRegister
    /\ signature = [s \in Ids |-> NoDecision]
    /\ owner = NoOne
    /\ desk = [a \in Actors |-> Idle]

-----------------------------------------------------------------------------

At(a, step) == desk[a].step = step
MayBegin(a, duty) == At(a, "idle") /\ duty \in Duties[a]

\* What a request is about, and what it has read of the register.
Call(step, C) == [Idle EXCEPT !.step = step, !.about = C]
Ask(step, C) == [Call(step, C) EXCEPT !.saw = claim]
Begin(a, request) == desk' = [desk EXCEPT ![a] = request]
Done(a) == desk' = [desk EXCEPT ![a] = Idle]

\* The unit of work writes a column only if its value is not the one it read.
Column(now, read, new) == IF new = read THEN now ELSE new

WriteRow(row, read, status, sig) ==
    [row EXCEPT !.status = Column(@, read.status, status), !.sig = Column(@, read.sig, sig)]

\* A plausible mistake: a claim whose signature is gone has expired.
SentBackExpired(C, saw) ==
    [c \in Claims |-> IF c \in C THEN WriteRow(claim[c], saw[c], "expired", NoId) ELSE claim[c]]

SentBack(C, saw) ==
    [c \in Claims |-> IF c \in C THEN WriteRow(claim[c], saw[c], "pending_signoff", NoId) ELSE claim[c]]

Made(s) == signature[s].signer # NoOne
Standing(s) == Made(s) /\ ~signature[s].voided
Live(s) == s # NoId /\ Standing(s) /\ ~signature[s].lapsed

Void(S) == signature' = [s \in Ids |-> [signature[s] EXCEPT !.voided = @ \/ s \in S]]

\* claims_index.ref_status: what a compile makes of the row.
Licensed == {c \in Claims : claim[c].status = "approved" /\ Live(claim[c].sig)}

-----------------------------------------------------------------------------

(* The guideline run: 3.2.3 materialises its verdicts                        *)

BeginHarvest(a) ==
    /\ MayBegin(a, "harvest")
    /\ \E C \in SUBSET Claims \ {{}} : Begin(a, Ask("harvest", C))
    /\ UNCHANGED register

\* A signed claim keeps its status and its signature; what was harvested of it
\* is written all the same.
Harvested(c, saw, verdict, moved) ==
    [claim[c] EXCEPT
        !.status = IF saw[c].sig = NoId /\ saw[c].status \in {"absent"} \cup Reharvestable
                   THEN Column(@, saw[c].status, verdict) ELSE @,
        !.words = IF moved /\ @ < MaxWordings THEN @ + 1 ELSE @]

Harvest(a) ==
    LET now == desk[a]
    IN  /\ At(a, "harvest")
        /\ \E verdict \in Reharvestable, moved \in BOOLEAN :
              claim' = [c \in Claims |-> IF c \in now.about THEN Harvested(c, now.saw, verdict, moved)
                                         ELSE claim[c]]
        /\ Done(a)
        /\ UNCHANGED <<signature, owner>>

-----------------------------------------------------------------------------

(* edit_claim                                                                *)

BeginEdit(a) ==
    /\ MayBegin(a, "edit")
    /\ \E c \in Claims :
          /\ claim[c].status \notin {"absent", "approved"} /\ claim[c].sig = NoId
          /\ Begin(a, Call("edit", {c}))
    /\ UNCHANGED register

Edit(a) ==
    /\ At(a, "edit")
    /\ claim' = [c \in Claims |-> IF c \in desk[a].about /\ claim[c].words < MaxWordings
                                  THEN [claim[c] EXCEPT !.words = @ + 1] ELSE claim[c]]
    /\ Done(a)
    /\ UNCHANGED <<signature, owner>>

-----------------------------------------------------------------------------

(* sign_claims                                                               *)

Wording(C, rows) == [c \in Claims |-> IF c \in C THEN rows[c].words ELSE 0]

\* A retried submit gets the signature that exists, unless it no longer governs
\* its claims.
AlreadySigned(C, A) ==
    \E s \in Ids : /\ Standing(s) /\ signature[s].covers = C /\ signature[s].approves = A
                   /\ signature[s].words = Wording(C, claim)
                   /\ \A c \in C : claim[c].sig = s

\* The named legal owner, over the words the register holds.
BeginSign(a) ==
    /\ MayBegin(a, "sign") /\ a = owner
    /\ \E C \in SUBSET {c \in Claims : claim[c].status # "absent"} :
          /\ C # {}
          /\ \E A \in SUBSET C : ~AlreadySigned(C, A) /\ Begin(a, [Ask("sign", C) EXCEPT !.yes = A])
    /\ UNCHANGED register

\* A plausible mistake: what the submit covers is approved, whatever it says of it.
DecidedAll(now, s) ==
    [c \in Claims |-> IF c \in now.about THEN WriteRow(claim[c], now.saw[c], "approved", s) ELSE claim[c]]

Decided(now, s) ==
    [c \in Claims |->
        IF c \notin now.about THEN claim[c]
        ELSE WriteRow(claim[c], now.saw[c], IF c \in now.yes THEN "approved" ELSE "rejected", s)]

Sign(a) ==
    LET now == desk[a]
    IN  /\ At(a, "sign")
        /\ \E s \in Ids :
              /\ ~Made(s) /\ \A t \in Ids : t < s => Made(t)
              /\ signature' = [signature EXCEPT ![s] = [NoDecision EXCEPT
                                  !.signer = a, !.covers = now.about, !.approves = now.yes,
                                  !.words = Wording(now.about, now.saw)]]
              /\ claim' = Decided(now, s)
        /\ Done(a)
        /\ UNCHANGED owner

-----------------------------------------------------------------------------

(* revoke_signature                                                          *)

\* A plausible mistake: only what is approved has to go back.
BeginRevokeApproved(a) ==
    /\ MayBegin(a, "revoke")
    /\ \E c \in Claims :
          LET s == claim[c].sig
          IN  /\ s # NoId /\ Standing(s) /\ signature[s].signer = a
              /\ Begin(a, [Ask("revoke", {d \in Claims : claim[d].sig = s /\ claim[d].status = "approved"})
                             EXCEPT !.sigs = {s}])
    /\ UNCHANGED register

BeginRevoke(a) ==
    /\ MayBegin(a, "revoke")
    /\ \E c \in Claims :
          LET s == claim[c].sig
          IN  /\ s # NoId /\ Standing(s) /\ signature[s].signer = a
              /\ Begin(a, [Ask("revoke", {d \in Claims : claim[d].sig = s}) EXCEPT !.sigs = {s}])
    /\ UNCHANGED register

-----------------------------------------------------------------------------

(* put_signoff_matrix                                                        *)

SignedBy(p) == {s \in Ids : Standing(s) /\ signature[s].signer = p}

\* The current matrix is read under its row lock, which holds other changes up;
\* nothing holds up a signature. Without a matrix there is no row to lock.
BeginMatrix(a) ==
    /\ MayBegin(a, "matrix")
    /\ \E p \in {b \in Actors : "sign" \in Duties[b]} \ {owner} :
          \/ owner = NoOne /\ Begin(a, [Call("first matrix", {}) EXCEPT !.who = p])
          \/ /\ owner # NoOne /\ \A b \in Actors : ~At(b, "matrix")
             /\ Begin(a, [Call("matrix", {c \in Claims : claim[c].sig \in SignedBy(owner)})
                            EXCEPT !.sigs = SignedBy(owner), !.who = p])
    /\ UNCHANGED register

\* What the preview named is voided and sent back, whatever was signed since;
\* one statement writes the claims.
PutMatrix(a) ==
    LET now == desk[a]
    IN  /\ At(a, "matrix")
        /\ owner' = now.who
        /\ Void(now.sigs)
        /\ claim' = [c \in Claims |-> IF c \in now.about
                        THEN [claim[c] EXCEPT !.status = "pending_signoff", !.sig = NoId]
                        ELSE claim[c]]
        /\ Done(a)

\* The first matrix, of an administrator or of an approved G6; a second one is
\* refused (uq_signoff_matrix_current, signoff.apply_decision).
FirstMatrix(a) ==
    /\ At(a, "first matrix")
    /\ owner' = IF owner = NoOne THEN desk[a].who ELSE owner
    /\ Done(a)
    /\ UNCHANGED <<claim, signature>>

-----------------------------------------------------------------------------

(* reassign_human_task: H1 is handed over                                    *)

BeginReassign(a) ==
    /\ MayBegin(a, "reassign")
    /\ \E p \in Actors :
          /\ SignedBy(p) # {}
          /\ Begin(a, [Ask("reassign", {c \in Claims : claim[c].sig \in SignedBy(p)})
                         EXCEPT !.sigs = SignedBy(p)])
    /\ UNCHANGED register

\* revoke_signature writes the same.
Withdraw(a) ==
    /\ At(a, "revoke") \/ At(a, "reassign")
    /\ Void(desk[a].sigs)
    /\ claim' = SentBack(desk[a].about, desk[a].saw)
    /\ Done(a)
    /\ UNCHANGED owner

-----------------------------------------------------------------------------

\* Its expiry passes.
Lapse(s) ==
    /\ Made(s) /\ ~signature[s].lapsed
    /\ signature' = [signature EXCEPT ![s].lapsed = TRUE]
    /\ UNCHANGED <<claim, owner, desk>>

=============================================================================
