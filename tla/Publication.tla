----------------------------- MODULE Publication -----------------------------
(***************************************************************************)
(* The guidelines of one project, the rulesets compiled from them and from   *)
(* the claims register, and the policy amendments                           *)
(* (guidelines/publish.py, guidelines/versions.py, policy/).                 *)
(***************************************************************************)
EXTENDS ClaimsRegister, FiniteSetsExt

CONSTANTS
    Guidelines, NoGuideline,
    Publishers,    \* people that publish
    Publishes,     \* the guidelines each of them publishes
    Amendments, NoAmendment,
    Reviewers,     \* people that decide amendments
    MaxMajor       \* bound: versions

\* The rows of one table.
ASSUME PublicationAssumption ==
    /\ IsFiniteSet(Guidelines) /\ NoGuideline \notin Guidelines /\ MaxMajor \in Nat
    /\ \A p \in Publishers : Publishes[p] \subseteq Guidelines

VARIABLES
    guideline,   \* the content_guideline rows
    rulesets,    \* the rule_set rows
    press,       \* the publish request in flight at each publisher
    amendment,   \* the policy_amendment rows
    sweep,       \* what the watcher's transaction is doing, and what it has read
    flushed,     \* what that transaction has written and not committed
    inbox        \* the decision in flight at each reviewer

books == <<guideline, rulesets, press>>
policy == <<amendment, sweep, flushed, inbox>>
vars == <<claim, signature, owner, desk, guideline, rulesets, press, amendment, sweep, flushed, inbox>>

Closed == [step |-> "idle", of |-> NoGuideline, major |-> 0, licensed |-> {}, replaces |-> {}]
NoSweep == [step |-> "idle", todo |-> {}, on |-> NoAmendment, about |-> {}, saw |-> EmptyRegister,
            sigs |-> {}]
Nothing == [claims |-> {}, rows |-> EmptyRegister, voided |-> {}, minted |-> {},
            status |-> [m \in Amendments |-> "absent"]]
NoReview == [step |-> "idle", on |-> NoAmendment, mint |-> {}]

Ruleset == [of : Guidelines, major : Nat, minor : Nat, licensed : SUBSET Claims]

TypeOK ==
    /\ claim \in Rows
    /\ signature \in [Ids -> [signer : Actors \cup {NoOne}, covers : SUBSET Claims,
                              approves : SUBSET Claims, words : [Claims -> Nat],
                              voided : BOOLEAN, lapsed : BOOLEAN]]
    /\ owner \in Actors \cup {NoOne}
    /\ desk \in [Actors -> [step : {"idle", "harvest", "edit", "sign", "revoke", "reassign", "matrix",
                                    "first matrix"},
                            saw : Rows, about : SUBSET Claims, yes : SUBSET Claims,
                            sigs : SUBSET Ids, who : Actors \cup {NoOne}]]
    /\ guideline \in [Guidelines -> [status : {"absent", "draft", "ready", "published", "superseded"},
                                     major : Nat]]
    /\ rulesets \subseteq Ruleset
    /\ press \in [Publishers -> [step : {"idle", "compile", "seal"}, of : Guidelines \cup {NoGuideline},
                                 major : Nat, licensed : SUBSET Claims, replaces : SUBSET Guidelines]]
    /\ amendment \in [Amendments -> {"absent", "open", "needs_review", "applied", "auto_applied",
                                     "dismissed"}]
    /\ sweep \in [step : {"idle", "next", "classified", "found"}, todo : SUBSET Amendments,
                  on : Amendments \cup {NoAmendment}, about : SUBSET Claims, saw : Rows,
                  sigs : SUBSET Ids]
    /\ flushed \in [claims : SUBSET Claims, rows : Rows, voided : SUBSET Ids, minted : SUBSET Ruleset,
                    status : [Amendments -> {"absent", "needs_review", "auto_applied"}]]
    /\ inbox \in [Reviewers -> [step : {"idle", "apply", "dismiss"}, on : Amendments \cup {NoAmendment},
                                mint : SUBSET Ruleset]]

Init ==
    /\ RegisterInit
    /\ guideline = [g \in Guidelines |-> [status |-> "absent", major |-> 0]]
    /\ rulesets = {}
    /\ press = [p \in Publishers |-> Closed]
    /\ amendment = [m \in Amendments |-> "absent"]
    /\ sweep = NoSweep
    /\ flushed = Nothing
    /\ inbox = [r \in Reviewers |-> NoReview]

-----------------------------------------------------------------------------

(* A guideline run                                                           *)

Published == {g \in Guidelines : guideline[g].status = "published"}

\* Every row counts, published or not.
NextMajor == Max({0} \cup {guideline[g].major : g \in Guidelines}) + 1

\* The row is made when the run starts. No request is so slow that a run starts
\* in it.
Draft(g) ==
    /\ guideline[g].status = "absent"
    /\ \A p \in Publishers : press[p].step = "idle"
    /\ guideline' = [guideline EXCEPT ![g] = [status |-> "draft", major |-> NextMajor]]
    /\ UNCHANGED <<register, desk, rulesets, press, policy>>

\* 3.6.1 and 3.6.2 fill it in; both gates are approved and H1 is complete.
Ready(g) ==
    /\ guideline[g].status = "draft"
    /\ guideline' = [guideline EXCEPT ![g].status = "ready"]
    /\ UNCHANGED <<register, desk, rulesets, press, policy>>

-----------------------------------------------------------------------------

(* publish_guideline                                                         *)

\* Every claim is decided, every approval has a live signature.
NothingBlocks ==
    \A c \in Claims :
        /\ claim[c].status # "pending_signoff"
        /\ claim[c].status = "approved" => Live(claim[c].sig)

BeginPublish(p) ==
    /\ press[p].step = "idle"
    /\ \E g \in Publishes[p] :
          /\ guideline[g].status \in {"ready", "superseded"}
          /\ press' = [press EXCEPT ![p] = [Closed EXCEPT !.step = "compile", !.of = g]]
    /\ NothingBlocks
    /\ UNCHANGED <<register, desk, guideline, rulesets, policy>>

\* The register is read again for the compile; the version has to be the one
\* that was confirmed.
Compile(p) ==
    /\ press[p].step = "compile"
    /\ \/ /\ NextMajor <= MaxMajor
          /\ press' = [press EXCEPT ![p] = [step |-> "seal", of |-> @.of, major |-> NextMajor,
                                            licensed |-> Licensed, replaces |-> Published \ {@.of}]]
       \/ press' = [press EXCEPT ![p] = Closed]
    /\ UNCHANGED <<register, desk, guideline, rulesets, policy>>

\* uq_content_guideline_project_version, uq_rule_set_hash and the trigger on a
\* published row.
Accepted(p) ==
    LET job == press[p]
    IN  /\ \A g \in Guidelines \ {job.of} : guideline[g].major # job.major
        /\ guideline[job.of].status # "published"
        /\ [of |-> job.of, major |-> job.major, minor |-> 0, licensed |-> job.licensed] \notin rulesets

Seal(p) ==
    LET job == press[p]
    IN  /\ job.step = "seal"
        /\ \/ /\ Accepted(p)
              /\ guideline' = [g \in Guidelines |->
                    IF g = job.of THEN [status |-> "published", major |-> job.major]
                    ELSE IF g \in job.replaces THEN [guideline[g] EXCEPT !.status = "superseded"]
                    ELSE guideline[g]]
              /\ rulesets' = rulesets \cup {[of |-> job.of, major |-> job.major, minor |-> 0,
                                             licensed |-> job.licensed]}
           \/ ~Accepted(p) /\ UNCHANGED <<guideline, rulesets>>
        /\ press' = [press EXCEPT ![p] = Closed]
        /\ UNCHANGED <<register, desk, policy>>

-----------------------------------------------------------------------------

(* policy/lifecycle.py                                                       *)

\* A plausible mistake: the minors of every version count.
MintedOverAll(g, issued, licensed) ==
    [of |-> g, major |-> guideline[g].major,
     minor |-> Max({0} \cup {r.minor : r \in issued}) + 1, licensed |-> licensed]

MinorsOf(g, issued) == {r.minor : r \in {x \in issued : x.of = g /\ x.major = guideline[g].major}}

\* mint_minor: the payload again, above what is issued and with what is licensed.
\* Nothing keeps another transaction from the same minor.
Minted(g, issued, licensed) ==
    [of |-> g, major |-> guideline[g].major,
     minor |-> Max({0} \cup MinorsOf(g, issued)) + 1, licensed |-> licensed]

\* _published_guideline
InForce == {g \in Published : \A h \in Published : guideline[h].major <= guideline[g].major}

\* sweep: the watched pages are read first. One changed while something was published.
Watch(m) ==
    /\ sweep = NoSweep /\ amendment[m] = "absent" /\ Published # {}
    /\ amendment' = [amendment EXCEPT ![m] = "open"]
    /\ UNCHANGED <<register, desk, books, sweep, flushed, inbox>>

\* Everything that is open is classified and applied in one transaction.
BeginSweep ==
    /\ sweep = NoSweep /\ \E m \in Amendments : amendment[m] = "open"
    /\ sweep' = [NoSweep EXCEPT !.step = "next", !.todo = {m \in Amendments : amendment[m] = "open"}]
    /\ UNCHANGED <<register, desk, books, amendment, flushed, inbox>>

\* What the transaction sees: its own writes over what is committed.
Seen == [c \in Claims |-> IF c \in flushed.claims THEN flushed.rows[c] ELSE claim[c]]
SeenStanding(s) == Standing(s) /\ s \notin flushed.voided
SeenLicensed ==
    {c \in Claims : Seen[c].status = "approved" /\ Live(Seen[c].sig) /\ SeenStanding(Seen[c].sig)}

\* The classifier reads the signed claims and asks a model, which may take long.
Classify(m) ==
    /\ sweep.step = "next" /\ m \in sweep.todo
    /\ sweep' = [NoSweep EXCEPT
                     !.step = "classified", !.todo = sweep.todo \ {m}, !.on = m,
                     !.about = {c \in Claims : /\ Seen[c].status = "approved" /\ Seen[c].sig # NoId
                                               /\ SeenStanding(Seen[c].sig)}]
    /\ UNCHANGED <<register, desk, books, amendment, flushed, inbox>>

Onward(written, status) ==
    /\ sweep' = [NoSweep EXCEPT !.step = "next", !.todo = sweep.todo]
    /\ flushed' = [written EXCEPT !.status[sweep.on] = status]
    /\ UNCHANGED <<register, desk, books, amendment, inbox>>

\* mechanical: something is published, nothing takes that back.
Recompile ==
    /\ sweep.step = "classified"
    /\ \E g \in InForce :
          Onward([flushed EXCEPT !.minted = @ \cup {Minted(g, rulesets \cup @, SeenLicensed)}],
                 "auto_applied")

\* substantive, unclassified, or signature_affecting without a claim
AskPerson == sweep.step = "classified" /\ Onward(flushed, "needs_review")

\* signature_affecting: the claims the model named, and what they are signed with
\* by now.
FindSignatures ==
    /\ sweep.step = "classified"
    /\ \E C \in SUBSET sweep.about \ {{}} :
          sweep' = [sweep EXCEPT !.step = "found", !.about = C, !.saw = Seen,
                                 !.sigs = {s \in {Seen[c].sig : c \in C} \ {NoId} : SeenStanding(s)}]
    /\ UNCHANGED <<register, desk, books, amendment, flushed, inbox>>

\* A row that is as it should be is not written.
VoidSignatures ==
    LET moved == {c \in sweep.about : \/ sweep.saw[c].status # "pending_signoff"
                                      \/ sweep.saw[c].sig # NoId}
    IN  /\ sweep.step = "found"
        /\ Onward([flushed EXCEPT
                      !.voided = @ \cup sweep.sigs,
                      !.claims = @ \cup moved,
                      !.rows = [c \in Claims |->
                          IF c \in moved
                          THEN WriteRow(Seen[c], sweep.saw[c], "pending_signoff", NoId) ELSE @[c]]],
                  "needs_review")

EndSweep == sweep' = NoSweep /\ flushed' = Nothing

\* The one commit; what is left to do could not be classified.
CommitSweep ==
    /\ sweep.step = "next"
    /\ rulesets' = rulesets \cup flushed.minted
    /\ claim' = Seen
    /\ Void(flushed.voided)
    /\ amendment' = [m \in Amendments |-> IF flushed.status[m] = "absent" THEN amendment[m]
                                          ELSE flushed.status[m]]
    /\ EndSweep
    /\ UNCHANGED <<owner, desk, guideline, press, inbox>>

\* The process dies, or uq_rule_set_hash refuses a minor: nothing is kept.
SweepDies ==
    /\ sweep.step # "idle"
    /\ EndSweep
    /\ UNCHANGED <<register, desk, books, amendment, inbox>>

\* The request reads the amendment and compiles, then commits.
BeginDecision(r) ==
    /\ inbox[r].step = "idle"
    /\ \E m \in Amendments :
          /\ amendment[m] \in {"open", "needs_review"}
          /\ \/ \E g \in InForce :
                   inbox' = [inbox EXCEPT ![r] = [step |-> "apply", on |-> m,
                                                  mint |-> {Minted(g, rulesets, Licensed)}]]
             \/ inbox' = [inbox EXCEPT ![r] = [step |-> "dismiss", on |-> m, mint |-> {}]]
    /\ UNCHANGED <<register, desk, books, amendment, sweep, flushed>>

\* Over a row the sweep has written it waits for the sweep.
Decide(r) ==
    LET job == inbox[r]
    IN  /\ job.step # "idle" /\ flushed.status[job.on] = "absent"
        /\ rulesets' = rulesets \cup job.mint
        /\ amendment' = [amendment EXCEPT ![job.on] = IF job.step = "apply" THEN "applied" ELSE "dismissed"]
        /\ inbox' = [inbox EXCEPT ![r] = NoReview]
        /\ UNCHANGED <<register, desk, guideline, press, sweep, flushed>>

\* uq_rule_set_hash: the same minor was issued meanwhile.
DecideRefused(r) ==
    /\ inbox[r].mint \cap rulesets # {}
    /\ inbox' = [inbox EXCEPT ![r] = NoReview]
    /\ UNCHANGED <<register, desk, books, amendment, sweep, flushed>>

-----------------------------------------------------------------------------

\* The register is written without a look at what was published from it, but not
\* over a row the sweep has written and not committed.
Unread ==
    /\ \A c \in flushed.claims : claim'[c] = claim[c]
    /\ \A s \in flushed.voided : signature'[s].voided = signature[s].voided
    /\ UNCHANGED <<books, policy>>

Next ==
    \/ \E a \in Actors : BeginHarvest(a) /\ Unread
    \/ \E a \in Actors : Harvest(a) /\ Unread
    \/ \E a \in Actors : BeginEdit(a) /\ Unread
    \/ \E a \in Actors : Edit(a) /\ Unread
    \/ \E a \in Actors : BeginSign(a) /\ Unread
    \/ \E a \in Actors : Sign(a) /\ Unread
    \/ \E a \in Actors : BeginRevoke(a) /\ Unread
    \/ \E a \in Actors : BeginReassign(a) /\ Unread
    \/ \E a \in Actors : Withdraw(a) /\ Unread
    \/ \E a \in Actors : BeginMatrix(a) /\ Unread
    \/ \E a \in Actors : PutMatrix(a) /\ Unread
    \/ \E a \in Actors : FirstMatrix(a) /\ Unread
    \/ \E s \in Ids : Lapse(s) /\ Unread
    \/ \E g \in Guidelines : Draft(g) \/ Ready(g)
    \/ \E p \in Publishers : BeginPublish(p) \/ Compile(p) \/ Seal(p)
    \/ \E m \in Amendments : Watch(m) \/ Classify(m)
    \/ BeginSweep \/ Recompile \/ AskPerson \/ FindSignatures \/ VoidSignatures
    \/ CommitSweep \/ SweepDies
    \/ \E r \in Reviewers : BeginDecision(r) \/ Decide(r) \/ DecideRefused(r)

Spec == Init /\ [][Next]_vars

-----------------------------------------------------------------------------

\* No ruleset ever lets copy assert a claim that no legal signature approved, and
\* neither would one compiled now, however the requests that read and write the
\* register overlap: an approval is written by a signature that approves
\* (publish.py, policy/lifecycle.py mint_minor, claims_index.ref_status).
LicensedWasApproved ==
    \A c \in Licensed \cup UNION {r.licensed : r \in rulesets} :
        \E s \in Ids : Made(s) /\ c \in signature[s].approves

\* No claim is left under a signature that is voided: revoke_signature,
\* reassign_human_task and put_signoff_matrix each void a signature and send its
\* claims back from rows they read earlier, while others sign, harvest and hand
\* over (routes_claims.py, routes_governance.py). It does not hold of the watcher,
\* which sends back only the claims the model named (policy/lifecycle.py:542-564).
SignaturesStand == \A c \in Claims : claim[c].sig # NoId => Standing(claim[c].sig)

\* The publish requests, the watcher and the reviewers together keep a rulebook:
\* one guideline is in force, its version is above the one it replaces and is
\* compiled, amendments add the next minor of some version, none skipped, and no
\* version that was issued disappears (publish.py _supersede, versions.py
\* next_major, policy/lifecycle.py mint_minor).
Book == INSTANCE Rulebook WITH
    inForce <- {guideline[g].major : g \in Published},
    issued <- {<<r.major, r.minor>> : r \in rulesets}

RulebookKept == Book!Spec

\* publish.py:569-571 says of a superseded rulebook that it "has to keep saying
\* exactly what it said when it was published": the row is never written again.
SupersededStays ==
    [][\A g \in Guidelines : guideline[g].status = "superseded" => guideline'[g] = guideline[g]]_vars

Governing(g) ==
    {r \in rulesets : /\ r.of = g /\ r.major = guideline[g].major
                      /\ r.minor = Max(MinorsOf(g, rulesets))}

\* policy/lifecycle.py:33-37 says that a claim whose signature was voided is
\* un-licensed from that moment; the ruleset in force still licenses it.
VoidedIsUnlicensed ==
    \A g \in Published : \A r \in Governing(g) : \A c \in r.licensed : claim[c].status # "pending_signoff"

=============================================================================
