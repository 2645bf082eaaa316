----------------------------- MODULE ClientSetup -----------------------------
(***************************************************************************)
(* The enrollment of a client through the relay's mailbox: the mailbox     *)
(* store (internal/enrollmentexchange), the two comparison sessions of the *)
(* recipient and of the offline operator, the privileged coordinator       *)
(* (internal/enrollmentsetup) and the unprivileged command that drives it. *)
(* The relay is untrusted and forgets everything when it restarts; a       *)
(* courier call may be lost before or after it took effect; every command  *)
(* may stop between two durable file operations; time passes.              *)
(*                                                                         *)
(* Abstractions.  A transcript is a number (a fresh one for every sealing  *)
(* of a request) and stands for the ciphertext, the digest and the safety  *)
(* phrase derived from it; 0 is none.  The two humans read out what their  *)
(* screens show, or mistype.  Signatures and capabilities are perfect.     *)
(* The target's lifecycle is the outcome of each call made to it (module   *)
(* EnrollmentTarget has its steps): `ahead` is an anchor that moved before *)
(* state.json.  The installed release does not change during a setup.      *)
(***************************************************************************)
EXTENDS Naturals, Sequences, FiniteSets

CONSTANTS
  Invitations,    \* the invitations this client may be given
  MaxClock,       \* bound: the last instant explored
  InvitationEnd,  \* the instant at which every invitation expires
  RequestLife,    \* requestValidity
  MaxTranscripts, \* bound: sealed requests
  MaxStored,      \* MaxMailboxStoredBytes, in documents
  Issued,         \* the enrollment responses the operator may issue
  MaxSetupFaults  \* bound: commands that stop half way, relay restarts

ASSUME SetupAssumption ==
  /\ IsFiniteSet(Invitations) /\ 0 \notin Invitations
  /\ MaxStored \in Nat /\ MaxTranscripts \in Nat /\ Issued \subseteq Nat

VARIABLES
  clock,
  slot,         \* the relay's mailboxes
  stored,       \* storedBytes of the relay's store
  oper,         \* the operator's sessions, by invitation
  bound,        \* bound responses the operator has signed
  selector,     \* current.json: the selected invitation
  ready,        \* ready.json
  work,         \* session-<digest>: the workspaces, by invitation
  requests,     \* the signed requests created, with their times
  sealed,       \* the request of every transcript
  life,         \* the client's lifecycle root
  ctl,          \* the setup command that holds setup.lock
  front,        \* the state the user's command works from
  setupFaults

relayVars == <<slot, stored>>
operVars == <<oper, bound>>
diskVars == <<selector, ready, work, requests, sealed, life>>
setupVars == <<clock, relayVars, operVars, diskVars, ctl, front, setupFaults>>

None == 0
NoSlot == [made |-> FALSE, request |-> 0, response |-> [tx |-> 0, resp |-> 0],
           consumed |-> FALSE]
NoResponse == [tx |-> 0, resp |-> 0]
NoSession == [gen |-> 0, phase |-> "none", req |-> 0, tx |-> 0, response |-> NoResponse]
NoWork == [dir |-> FALSE, plan |-> None, pending |-> 0, cancelled |-> FALSE,
           session |-> NoSession]
NoReady == [inv |-> None, gen |-> 0, req |-> 0, cleaned |-> FALSE]
NoLife == [st |-> "none", inv |-> None, req |-> 0, response |-> NoResponse,
           identity |-> FALSE, ahead |-> FALSE]
NoCtl == [name |-> "none", pc |-> "none", inv |-> None, now |-> 0,
          arg |-> NoResponse, who |-> "none"]
NoFront == [phase |-> "none", inv |-> None, put |-> FALSE, response |-> NoResponse]

Confirmed == {"confirmed", "verified", "applied", "ready"}

SetupInit ==
  /\ clock = 1
  /\ slot = [i \in Invitations |-> NoSlot] /\ stored = 0
  /\ oper = [i \in Invitations |-> [phase |-> "none", tx |-> 0]] /\ bound = {}
  /\ selector = None /\ ready = NoReady
  /\ work = [i \in Invitations |-> NoWork]
  /\ requests = <<>> /\ sealed = <<>> /\ life = NoLife
  /\ ctl = NoCtl /\ front = NoFront /\ setupFaults = 0

(* Both documents are checked against the clock each time they are parsed. *)
InvitationValid(t) == t < InvitationEnd

RequestValid(r, t) ==
  /\ requests[r] <= t
  /\ t < requests[r] + RequestLife /\ t < InvitationEnd

SetupTick ==
  /\ clock < MaxClock /\ clock' = clock + 1
  /\ UNCHANGED <<relayVars, operVars, diskVars, ctl, front, setupFaults>>

-----------------------------------------------------------------------------
(* The relay's mailbox store                                               *)

Held(s) == (IF s.request # 0 THEN 1 ELSE 0) + (IF s.response # NoResponse THEN 1 ELSE 0)

(* expireLocked, the first thing every mailbox action does.                *)
Live(s) == IF InvitationValid(clock) THEN s ELSE [i \in Invitations |-> NoSlot]
LiveStored == IF InvitationValid(clock) THEN stored ELSE 0

(* put: once; the same bytes again are accepted, others are not; an arena  *)
(* that is full refuses.                                                   *)
PutInto(old, new, none) == IF old = none /\ LiveStored < MaxStored THEN new ELSE old

Open(s) == s.made /\ ~s.consumed

CreateMailbox(i) ==
  /\ InvitationValid(clock)
  /\ slot' = [slot EXCEPT ![i] = IF @.made THEN @ ELSE [NoSlot EXCEPT !.made = TRUE]]
  /\ stored' = stored
  /\ UNCHANGED <<clock, operVars, diskVars, ctl, front, setupFaults>>

PutRequestEffect(i, tx) ==
  LET s == Live(slot)
      req == IF Open(s[i]) THEN PutInto(s[i].request, tx, 0) ELSE s[i].request IN
    /\ slot' = [s EXCEPT ![i].request = req]
    /\ stored' = IF req # s[i].request THEN LiveStored + 1 ELSE LiveStored

PutRequestOK(i, tx) ==
  /\ InvitationValid(clock) /\ Open(slot[i])
  /\ slot[i].request = tx \/ (slot[i].request = 0 /\ stored < MaxStored)

PutResponseEffect(i, b) ==
  LET s == Live(slot)
      rsp == IF Open(s[i]) THEN PutInto(s[i].response, b, NoResponse)
             ELSE s[i].response IN
    /\ slot' = [s EXCEPT ![i].response = rsp]
    /\ stored' = IF rsp # s[i].response THEN LiveStored + 1 ELSE LiveStored

ConsumeEffect(i) ==
  LET s == Live(slot) IN
    IF s[i].made /\ ~s[i].consumed
    THEN /\ slot' = [s EXCEPT ![i] = [NoSlot EXCEPT !.made = TRUE, !.consumed = TRUE]]
         /\ stored' = LiveStored - Held(s[i])
    ELSE slot' = s /\ stored' = LiveStored

(* The store is memory only.                                               *)
RelayRestart ==
  /\ setupFaults < MaxSetupFaults /\ setupFaults' = setupFaults + 1
  /\ slot' = [i \in Invitations |-> NoSlot] /\ stored' = 0
  /\ UNCHANGED <<clock, operVars, diskVars, ctl, front>>

-----------------------------------------------------------------------------
(* The operator's offline session, opened on a ciphertext the courier      *)
(* brought: the one in the mailbox, or one the relay put in its place.     *)

Foreign == MaxTranscripts + 1

Opens(tx) == InvitationValid(clock) /\ (tx # Foreign => RequestValid(sealed[tx], clock))

OpenOperator(i) ==
  /\ oper[i].phase = "none"
  /\ \E tx \in {Foreign} \cup {t \in {slot[i].request} : Open(slot[i]) /\ t # 0} :
       /\ Opens(tx)
       /\ oper' = [oper EXCEPT ![i] = [phase |-> "pending", tx |-> tx]]
  /\ UNCHANGED <<clock, relayVars, bound, diskVars, ctl, front, setupFaults>>

OperatorLoads(i) == Opens(oper[i].tx)

(* ConfirmTargetWords with the words the recipient reads out (those of its *)
(* own transcript) or with a slip of the tongue; a mismatch is terminal.   *)
ConfirmTargetWords(i, slip) ==
  /\ oper[i].phase = "pending" /\ OperatorLoads(i)
  /\ front.phase = "pending" /\ front.inv = i /\ front.put
  /\ oper' = [oper EXCEPT ![i].phase =
       IF ~slip /\ oper[i].tx = work[i].session.tx THEN "confirmed" ELSE "cancelled"]
  /\ UNCHANGED <<clock, relayVars, bound, diskVars, ctl, front, setupFaults>>

BindResponse(i, resp) ==
  /\ oper[i].phase = "confirmed" /\ OperatorLoads(i)
  /\ bound' = bound \cup {[tx |-> oper[i].tx, resp |-> resp]}
  /\ UNCHANGED <<clock, relayVars, oper, diskVars, ctl, front, setupFaults>>

(* PutRegisteredResponse by the online courier.                            *)
PutResponse(i, b) ==
  /\ b \in bound /\ b.tx = oper[i].tx
  /\ PutResponseEffect(i, b)
  /\ UNCHANGED <<clock, operVars, diskVars, ctl, front, setupFaults>>

-----------------------------------------------------------------------------
(* The coordinator's checks                                                *)

Loads(i, t) ==
  /\ work[i].session # NoSession
  /\ InvitationValid(t) /\ RequestValid(work[i].session.req, t)

(* openCurrentValidated: the selected workspace, its plan and its session, *)
(* valid now, or, once applied, at the plan's own verification time.       *)
OpenCurrent(t) ==
  /\ selector # None /\ work[selector].dir /\ work[selector].plan # None
  /\ InvitationValid(t) /\ ~work[selector].cancelled /\ Loads(selector, t)

OpenPostApply ==
  /\ selector # None /\ work[selector].dir /\ work[selector].plan # None
  /\ ~work[selector].cancelled /\ Loads(selector, work[selector].plan)
  /\ work[selector].session.phase = "applied"

Readable == life.st \notin {"none", "partial"} /\ ~life.ahead

(* ReadStatus answers ENOENT: no root, or one the bootstrap left without   *)
(* its state or anchor.                                                    *)
Absent == life.st \in {"none", "partial"}

ReadyValid == /\ Readable /\ life.st = "applied"
              /\ life.inv = ready.inv /\ life.req = ready.req

Session == work[ctl.inv].session
AtCtl(pc) == ctl.pc = pc
CtlGoto(pc) == ctl' = [ctl EXCEPT !.pc = pc]

(* The command ends; the user's process has the state it returned.         *)
Reply(phase) ==
  /\ ctl' = NoCtl
  /\ front' = IF ctl.who # "front" THEN front
              ELSE [NoFront EXCEPT !.phase = phase, !.inv = ctl.inv]
Refuse == ctl' = NoCtl /\ front' = IF ctl.who = "front" THEN NoFront ELSE front

Start(name, i, arg, who) ==
  ctl = NoCtl /\ ctl' = [name |-> name, pc |-> name, inv |-> i, now |-> clock,
                         arg |-> arg, who |-> who]

CtlSame == UNCHANGED <<clock, relayVars, operVars, setupFaults>>

-----------------------------------------------------------------------------
(* Stage: selectInvitation, then the pending material, then the plan's     *)
(* verification time, then the exchange session.                           *)

(* What selectInvitation lets another invitation replace.                  *)
Stageable(i) ==
  \/ selector = i /\ work[i].plan # None
  \/ /\ selector # i
     /\ selector # None => /\ work[selector].plan # None
                           /\ work[selector].cancelled /\ Absent
     /\ work[i].dir => work[i].plan # None /\ ~work[i].cancelled

StageSelect ==
  /\ AtCtl("stage")
  /\ IF ~InvitationValid(ctl.now) \/ ready # NoReady \/ ~Stageable(ctl.inv)
     THEN Refuse /\ UNCHANGED diskVars
     ELSE /\ CtlGoto(IF work[ctl.inv].dir THEN "selector" ELSE "plan")
          /\ work' = [work EXCEPT ![ctl.inv].dir = TRUE]
          /\ UNCHANGED <<selector, ready, requests, sealed, life, front>>
  /\ CtlSame

StagePlan ==
  /\ AtCtl("plan") /\ CtlGoto("selector")
  /\ work' = [work EXCEPT ![ctl.inv].plan = ctl.now]
  /\ UNCHANGED <<selector, ready, requests, sealed, life, front>> /\ CtlSame

StageSelector ==
  /\ AtCtl("selector")
  /\ selector' = ctl.inv
  /\ IF work[ctl.inv].cancelled
     THEN Refuse
     ELSE CtlGoto("pending") /\ UNCHANGED front
  /\ UNCHANGED <<ready, work, requests, sealed, life>> /\ CtlSame

StagePending ==
  /\ AtCtl("pending")
  /\ LET r == work[ctl.inv].pending IN
       IF r # 0
       THEN /\ IF RequestValid(r, ctl.now) THEN CtlGoto("bind") /\ UNCHANGED front
                                           ELSE Refuse
            /\ UNCHANGED <<work, requests>>
       ELSE /\ requests' = Append(requests, ctl.now)
            /\ work' = [work EXCEPT ![ctl.inv].pending = Len(requests) + 1]
            /\ CtlGoto("bind") /\ UNCHANGED front
  /\ UNCHANGED <<selector, ready, sealed, life>> /\ CtlSame

(* bindPlanValidationToRequest: the plan's time moves to the request's.    *)
StageBind ==
  /\ AtCtl("bind")
  /\ LET created == requests[work[ctl.inv].pending] IN
       IF created < work[ctl.inv].plan
       THEN Refuse /\ UNCHANGED work
       ELSE /\ work' = [work EXCEPT ![ctl.inv].plan = created]
            /\ CtlGoto("session") /\ UNCHANGED front
  /\ UNCHANGED <<selector, ready, requests, sealed, life>> /\ CtlSame

StageSession ==
  /\ AtCtl("session")
  /\ IF Session # NoSession
     THEN /\ IF Loads(ctl.inv, ctl.now) /\ Session.req = work[ctl.inv].pending
             THEN Reply(Session.phase) ELSE Refuse
          /\ UNCHANGED <<work, sealed>>
     ELSE /\ sealed' = Append(sealed, work[ctl.inv].pending)
          /\ work' = [work EXCEPT ![ctl.inv].session =
               [gen |-> 1, phase |-> "pending", req |-> work[ctl.inv].pending,
                tx |-> Len(sealed) + 1, response |-> NoResponse]]
          /\ Reply("pending")
  /\ UNCHANGED <<selector, ready, requests, life>> /\ CtlSame

-----------------------------------------------------------------------------
(* The session's compare-and-swap on its generation: every writer read the *)
(* session under setup.lock, so the generation it expects is the stored.   *)
Advance(phase, response) ==
  work' = [work EXCEPT ![ctl.inv].session =
    [gen |-> Session.gen + 1, phase |-> phase, req |-> Session.req, tx |-> Session.tx,
     response |-> response]]

(* Mutant: the reverse words are shown before the operator has confirmed.  *)
RevealedEarly(i) == oper[i].phase \in {"pending", "confirmed"}

(* Confirm: the reverse words are those of the operator's transcript, and  *)
(* are on the operator's screen only after it confirmed.                   *)
Revealed(i) == oper[i].phase = "confirmed"

ConfirmWords ==
  /\ AtCtl("confirm")
  /\ IF ~OpenCurrent(ctl.now) \/ Session.phase # "pending"
     THEN Refuse /\ UNCHANGED work
     ELSE IF ctl.arg.tx = Session.tx
          THEN Advance("confirmed", NoResponse) /\ CtlGoto("import") /\ UNCHANGED front
          ELSE Advance("cancelled", NoResponse) /\ CtlGoto("mark") /\ UNCHANGED front
  /\ UNCHANGED <<selector, ready, requests, sealed, life>> /\ CtlSame

MarkCancelled ==
  /\ AtCtl("mark") /\ CtlGoto("retire")
  /\ work' = [work EXCEPT ![ctl.inv].cancelled = TRUE]
  /\ UNCHANGED <<selector, ready, requests, sealed, life, front>> /\ CtlSame

RetirePending ==
  /\ AtCtl("retire") /\ Reply("cancelled")
  /\ work' = [work EXCEPT ![ctl.inv].pending = 0]
  /\ UNCHANGED <<selector, ready, requests, sealed, life>> /\ CtlSame

(* commitPending: ImportPendingClient bootstraps the lifecycle root or     *)
(* verifies it, and commits the pending request; only then is pending.json *)
(* unlinked.  Without pending.json the lifecycle must hold the request.    *)
AfterImport == IF ctl.name = "accept" THEN "bound"
               ELSE IF ctl.name = "resume" THEN "apply" ELSE "reply"

Imported(r) ==
  \/ Readable /\ life.st = "pending" /\ life.req = r
  \/ Session.phase = "verified" /\ Readable /\ life.st = "applied"

Importable(r) ==
  /\ RequestValid(r, ctl.now)
  /\ \/ life.st = "none"
     \/ /\ Readable /\ life.inv = ctl.inv
        /\ life.st = "empty" \/ (life.st = "pending" /\ life.req = r)

(* Mutant: pending.json is unlinked before the import.                     *)
ImportUnlinksFirst ==
  /\ AtCtl("import") /\ work[ctl.inv].pending # 0 /\ CtlGoto("unlink")
  /\ work' = [work EXCEPT ![ctl.inv].pending = 0]
  /\ UNCHANGED <<selector, ready, requests, sealed, life, front>> /\ CtlSame

ImportPending ==
  /\ AtCtl("import")
  /\ LET r == work[ctl.inv].pending IN
       IF r = 0
       THEN /\ IF Imported(Session.req) THEN CtlGoto(AfterImport) /\ UNCHANGED front
                                        ELSE Refuse
            /\ UNCHANGED life
       ELSE IF ~Importable(r) THEN Refuse /\ UNCHANGED life
       ELSE /\ life' = [NoLife EXCEPT !.st = "pending", !.inv = ctl.inv,
                                      !.req = r, !.identity = TRUE]
            /\ IF r = Session.req THEN CtlGoto("unlink") /\ UNCHANGED front ELSE Refuse
  /\ UNCHANGED <<selector, ready, work, requests, sealed>> /\ CtlSame

UnlinkPending ==
  /\ AtCtl("unlink") /\ CtlGoto(AfterImport)
  /\ work' = [work EXCEPT ![ctl.inv].pending = 0]
  /\ UNCHANGED <<selector, ready, requests, sealed, life, front>> /\ CtlSame

ReplyPhase ==
  /\ AtCtl("reply") /\ Reply(Session.phase)
  /\ UNCHANGED diskVars /\ CtlSame

(* AcceptAndApply: the import again, then AcceptBoundResponse: the         *)
(* response must be bound to this transcript; it is kept before apply.     *)
AcceptOpen ==
  /\ AtCtl("accept")
  /\ IF OpenCurrent(ctl.now) /\ Session.phase = "confirmed"
     THEN CtlGoto("import") /\ UNCHANGED front ELSE Refuse
  /\ UNCHANGED diskVars /\ CtlSame

AcceptBoundResponse ==
  /\ AtCtl("bound")
  /\ IF ctl.arg.tx # Session.tx
     THEN Refuse /\ UNCHANGED work
     ELSE Advance("verified", ctl.arg) /\ CtlGoto("apply") /\ UNCHANGED front
  /\ UNCHANGED <<selector, ready, requests, sealed, life>> /\ CtlSame

(* ResumeApply and Status.                                                 *)
ResumeOpen ==
  /\ AtCtl("resume")
  /\ IF ~OpenCurrent(ctl.now) THEN Refuse
     ELSE IF Session.phase = "applied" THEN Reply("applied")
     ELSE IF Session.phase = "verified" THEN CtlGoto("import") /\ UNCHANGED front
     ELSE Refuse
  /\ UNCHANGED diskVars /\ CtlSame

StatusOpen ==
  /\ AtCtl("status")
  /\ IF ready # NoReady
     THEN IF ReadyValid THEN Reply("ready") ELSE Refuse
     ELSE IF OpenCurrent(ctl.now) /\ Session.phase \in {"confirmed", "verified"}
     THEN CtlGoto("import") /\ UNCHANGED front
     ELSE IF OpenCurrent(ctl.now) \/ OpenPostApply THEN CtlGoto("reply") /\ UNCHANGED front
     ELSE Refuse
  /\ UNCHANGED diskVars /\ CtlSame

(* applyVerified: ApplyResponse, or, when that was done before, its exact  *)
(* reconciliation, which also removes the one-time identity.               *)
ApplyVerified ==
  /\ AtCtl("apply")
  /\ IF Readable /\ life.st = "pending" /\ life.req = Session.req
        /\ RequestValid(life.req, ctl.now)
     THEN /\ life' = [life EXCEPT !.st = "applied", !.response = Session.response,
                                  !.identity = FALSE]
          /\ CtlGoto("applied") /\ UNCHANGED front
     ELSE IF Readable /\ life.st = "applied" /\ life.response = Session.response
             /\ life.req = Session.req
     THEN life' = [life EXCEPT !.identity = FALSE] /\ CtlGoto("applied") /\ UNCHANGED front
     ELSE Refuse /\ UNCHANGED life
  /\ UNCHANGED <<selector, ready, work, requests, sealed>> /\ CtlSame

RecordApplied ==
  /\ AtCtl("applied")
  /\ Advance("applied", Session.response) /\ CtlGoto("reply")
  /\ UNCHANGED <<selector, ready, requests, sealed, life, front>> /\ CtlSame

(* CompleteReady: the committed response is reconciled, the carrier probe  *)
(* runs, the receipt is written, and only then does the session advance.   *)
ReadyOpen(probe) ==
  /\ AtCtl("readying")
  /\ IF ready # NoReady
     THEN (IF ReadyValid THEN Reply("ready") ELSE Refuse) /\ UNCHANGED diskVars
     ELSE IF (OpenCurrent(ctl.now) \/ OpenPostApply) /\ Session.phase = "applied"
             /\ Readable /\ life.st = "applied" /\ life.response = Session.response
     THEN /\ life' = [life EXCEPT !.identity = FALSE]
          /\ UNCHANGED <<selector, work, requests, sealed>>
          /\ IF probe
             THEN /\ ready' = [inv |-> ctl.inv, gen |-> Session.gen + 1,
                               req |-> Session.req, cleaned |-> FALSE]
                  /\ CtlGoto("advance") /\ UNCHANGED front
             ELSE Refuse /\ UNCHANGED ready
     ELSE Refuse /\ UNCHANGED diskVars
  /\ CtlSame

ReadyAdvance ==
  /\ AtCtl("advance")
  /\ Advance("ready", Session.response) /\ Reply("ready")
  /\ UNCHANGED <<selector, ready, requests, sealed, life>> /\ CtlSame

(* CleanupReady: RetireTargetStore on the exact session, the rest of the   *)
(* workspace, the selector, and the redacted receipt last.                 *)
Retirable(i) ==
  LET s == work[i].session IN
    \/ s = NoSession
    \/ /\ s.phase = "ready" /\ s.gen = ready.gen
       /\ s.req = ready.req
    \/ /\ s.phase = "applied" /\ s.gen + 1 = ready.gen
       /\ s.req = ready.req

CleanSession ==
  /\ AtCtl("clean")
  /\ IF ready = NoReady \/ ~ReadyValid THEN Refuse /\ UNCHANGED work
     ELSE IF ready.cleaned THEN Reply("cleaned") /\ UNCHANGED work
     ELSE IF ~Retirable(ready.inv) THEN Refuse /\ UNCHANGED work
     ELSE /\ work' = [work EXCEPT ![ready.inv].session = NoSession]
          /\ CtlGoto("cleanWork") /\ UNCHANGED front
  /\ UNCHANGED <<selector, ready, requests, sealed, life>> /\ CtlSame

CleanWorkspace ==
  /\ AtCtl("cleanWork") /\ CtlGoto("cleanSelector")
  /\ work' = [work EXCEPT ![ready.inv] = NoWork]
  /\ UNCHANGED <<selector, ready, requests, sealed, life, front>> /\ CtlSame

CleanSelector ==
  /\ AtCtl("cleanSelector") /\ CtlGoto("cleanReceipt")
  /\ selector' = None
  /\ UNCHANGED <<ready, work, requests, sealed, life, front>> /\ CtlSame

CleanReceipt ==
  /\ AtCtl("cleanReceipt") /\ Reply("cleaned")
  /\ ready' = [ready EXCEPT !.cleaned = TRUE]
  /\ UNCHANGED <<selector, work, requests, sealed, life>> /\ CtlSame

(* Cancel works on an expired setup too, and refuses once a record is      *)
(* active or the lifecycle is there and cannot be read.                    *)
CancelMark ==
  /\ AtCtl("cancel")
  /\ IF selector = None \/ work[selector].plan = None
        \/ ~(Absent \/ Readable) \/ life.st = "applied"
     THEN Refuse /\ UNCHANGED work
     ELSE /\ work' = [work EXCEPT ![ctl.inv].cancelled = TRUE]
          /\ CtlGoto("cancelSession") /\ UNCHANGED front
  /\ UNCHANGED <<selector, ready, requests, sealed, life>> /\ CtlSame

CancelSession ==
  /\ AtCtl("cancelSession") /\ CtlGoto("cancelPending")
  /\ IF Loads(ctl.inv, ctl.now) /\ Session.phase \notin {"cancelled", "applied", "ready"}
     THEN Advance("cancelled", NoResponse) ELSE UNCHANGED work
  /\ UNCHANGED <<selector, ready, requests, sealed, life, front>> /\ CtlSame

CancelLifecycle ==
  /\ AtCtl("cancelPending") /\ CtlGoto("cancelUnlink")
  /\ life' = IF life.st = "pending"
             THEN [life EXCEPT !.st = "cancelled", !.identity = FALSE] ELSE life
  /\ UNCHANGED <<selector, ready, work, requests, sealed, front>> /\ CtlSame

(* "OwnTransit setup cancelled. A different invitation may now be staged." *)
CancelUnlink ==
  /\ AtCtl("cancelUnlink")
  /\ work' = [work EXCEPT ![ctl.inv].pending = 0]
  /\ ctl' = NoCtl
  /\ front' = NoFront
  /\ UNCHANGED <<selector, ready, requests, sealed, life>> /\ CtlSame

-----------------------------------------------------------------------------
(* A command stops half way.  Inside a lifecycle call it may leave a       *)
(* bootstrap that is not whole, a bootstrap without the request, an anchor *)
(* ahead of state.json, or an applied record whose identity is still there. *)
LifeResidue ==
  \/ UNCHANGED life
  \/ /\ AtCtl("import") /\ work[ctl.inv].pending # 0
     /\ Importable(work[ctl.inv].pending)
     /\ \/ /\ life.st = "none"
           /\ life' \in {[NoLife EXCEPT !.st = s, !.inv = ctl.inv] : s \in {"partial", "empty"}}
        \/ /\ life.st # "pending"
           /\ life' = [NoLife EXCEPT !.st = "pending", !.inv = ctl.inv, !.ahead = TRUE,
                         !.req = work[ctl.inv].pending, !.identity = TRUE]
  \/ /\ AtCtl("apply") /\ Readable /\ life.st = "pending" /\ life.req = Session.req
     /\ RequestValid(life.req, ctl.now)
     /\ life' \in {[life EXCEPT !.st = "applied", !.response = Session.response,
                                !.ahead = a] : a \in BOOLEAN}
  \/ /\ AtCtl("cancelPending") /\ life.st = "pending"
     /\ life' = [life EXCEPT !.st = "cancelled", !.ahead = TRUE]

CommandStops ==
  /\ ctl # NoCtl /\ setupFaults < MaxSetupFaults
  /\ setupFaults' = setupFaults + 1
  /\ LifeResidue
  /\ ctl' = NoCtl /\ front' = NoFront
  /\ UNCHANGED <<clock, relayVars, operVars, selector, ready, work, requests, sealed>>

(* owntransitctl recover-state, run by the administrator.                  *)
RecoverState ==
  /\ ctl = NoCtl /\ life.ahead
  /\ life' = [life EXCEPT !.ahead = FALSE]
  /\ UNCHANGED <<clock, relayVars, operVars, selector, ready, work, requests,
                 sealed, ctl, front, setupFaults>>

-----------------------------------------------------------------------------
(* owntransit setup: continueClientSetup from the state it was given       *)

FrontSame == UNCHANGED <<clock, relayVars, operVars, diskVars, setupFaults>>

SetupFile(i) ==
  /\ front.phase = "none" /\ Len(requests) < MaxTranscripts
  /\ Start("stage", i, NoResponse, "front")
  /\ front' = [NoFront EXCEPT !.phase = "wait"] /\ FrontSame

SetupResume ==
  /\ front.phase = "none"
  /\ Start("status", IF ready # NoReady THEN ready.inv ELSE selector, NoResponse, "front")
  /\ selector # None \/ ready # NoReady
  /\ front' = [NoFront EXCEPT !.phase = "wait"] /\ FrontSame

(* --cancel may come from another terminal.                                *)
SetupCancel ==
  /\ selector # None /\ Start("cancel", selector, NoResponse, "other")
  /\ UNCHANGED front /\ FrontSame

(* A courier call that failed, before or after the relay acted.            *)
FrontPut(ok) ==
  /\ front.phase \in {"pending", "confirmed"} /\ ~front.put
  /\ LET tx == work[front.inv].session.tx IN
       /\ tx # 0
       /\ PutRequestEffect(front.inv, tx)
       /\ ok => PutRequestOK(front.inv, tx)
  /\ front' = IF ok THEN [front EXCEPT !.put = TRUE] ELSE NoFront
  /\ UNCHANGED <<clock, operVars, diskVars, ctl, setupFaults>>

FrontWords(slip) ==
  /\ front.phase = "pending" /\ front.put
  /\ Revealed(front.inv) \/ slip
  /\ Start("confirm", front.inv,
           [tx |-> IF slip THEN 0 ELSE oper[front.inv].tx, resp |-> 0], "front")
  /\ front' = [NoFront EXCEPT !.phase = "wait"] /\ FrontSame

(* The relay may return any bound response it has been given.              *)
FrontResponse(b) ==
  /\ front.phase = "confirmed" /\ front.put /\ b \in bound
  /\ Start("accept", front.inv, b, "front")
  /\ front' = [NoFront EXCEPT !.phase = "wait"] /\ FrontSame

FrontCommand(phase, name) ==
  /\ front.phase = phase
  /\ Start(name, front.inv, NoResponse, "front")
  /\ front' = [NoFront EXCEPT !.phase = "wait"] /\ FrontSame

(* READY: the mailbox is consumed if the relay can be reached, and the     *)
(* local cleanup follows in any case.                                      *)
FrontConsume ==
  /\ front.phase = "ready" /\ ~ready.cleaned
  /\ Start("clean", front.inv, NoResponse, "front")
  /\ ConsumeEffect(front.inv) \/ UNCHANGED relayVars
  /\ front' = [NoFront EXCEPT !.phase = "wait"]
  /\ UNCHANGED <<clock, operVars, diskVars, setupFaults>>

(* The user's process ends, at a prompt or an error or by a signal.        *)
FrontStop ==
  /\ front.phase # "none" /\ ctl = NoCtl
  /\ front' = NoFront
  /\ UNCHANGED <<ctl>> /\ FrontSame

-----------------------------------------------------------------------------
CommandStep ==
  \/ StageSelect \/ StagePlan \/ StageSelector \/ StagePending \/ StageBind
  \/ StageSession \/ ConfirmWords \/ MarkCancelled \/ RetirePending
  \/ ImportPending \/ UnlinkPending \/ ReplyPhase \/ AcceptOpen
  \/ AcceptBoundResponse \/ ResumeOpen \/ StatusOpen \/ ApplyVerified
  \/ RecordApplied \/ (\E probe \in BOOLEAN : ReadyOpen(probe)) \/ ReadyAdvance
  \/ CleanSession \/ CleanWorkspace \/ CleanSelector \/ CleanReceipt
  \/ CancelMark \/ CancelSession \/ CancelLifecycle \/ CancelUnlink

FrontStep ==
  \/ \E ok \in BOOLEAN : FrontPut(ok)
  \/ \E slip \in BOOLEAN : FrontWords(slip)
  \/ \E b \in bound : FrontResponse(b)
  \/ FrontCommand("verified", "resume") \/ FrontCommand("applied", "readying")
  \/ FrontConsume

SetupNext ==
  \/ SetupTick \/ RelayRestart
  \/ \E i \in Invitations :
       \/ CreateMailbox(i) \/ OpenOperator(i) \/ SetupFile(i)
       \/ \E slip \in BOOLEAN : ConfirmTargetWords(i, slip)
       \/ \E resp \in Issued : BindResponse(i, resp)
       \/ \E b \in bound : PutResponse(i, b)
  \/ SetupResume \/ SetupCancel
  \/ CommandStep \/ FrontStep \/ FrontStop \/ CommandStops \/ RecoverState

SetupSpec == SetupInit /\ [][SetupNext]_setupVars

-----------------------------------------------------------------------------
(* Properties                                                              *)

(* Whatever the relay delivers and wherever the commands stop, a recipient *)
(* session is confirmed only with the transcript that the operator         *)
(* confirmed (the two-way comparison of ConfirmTargetWords and             *)
(* ConfirmProvisionerWords).                                               *)
TranscriptsAgree ==
  \A i \in Invitations :
    work[i].session.phase \in Confirmed =>
      oper[i] = [phase |-> "confirmed", tx |-> work[i].session.tx]

(* Tentative authority reaches the lifecycle root only after the           *)
(* confirmation, and what becomes active is the response the operator      *)
(* bound to the confirmed transcript of that very request.                 *)
AppliedIsBound ==
  /\ life.st # "none" => oper[life.inv].phase = "confirmed"
  /\ life.req # 0 => sealed[oper[life.inv].tx] = life.req
  /\ life.st = "applied" =>
       life.response \in bound /\ life.response.tx = oper[life.inv].tx

(* The relay's byte counter is what its mailboxes hold, within the arena.  *)
MailboxExact ==
  /\ stored = Cardinality({i \in Invitations : slot[i].request # 0})
              + Cardinality({i \in Invitations : slot[i].response # NoResponse})
  /\ stored <= MaxStored

(* The exchange as a whole: the two sides agree on the transcript, only     *)
(* what was bound to it is ever applied, and the relay in between accounts  *)
(* for what it holds.                                                      *)
ExchangeSound == TranscriptsAgree /\ AppliedIsBound /\ MailboxExact

(* The request's private keys are on disk until they are given up: while   *)
(* a setup is neither cancelled nor cleaned, pending.json or the lifecycle *)
(* holds the keys of the session's request (commitPending's order).        *)
KeysKept ==
  \A i \in Invitations :
    work[i].session # NoSession /\ ~work[i].cancelled
      /\ work[i].session.phase # "cancelled" =>
        \/ work[i].pending = work[i].session.req
        \/ life.req = work[i].session.req /\ life.st \in {"pending", "applied"}

(* READY survives every stop: the receipt names the applied request, whose *)
(* one-time identity is gone, and the session it left is one that cleanup  *)
(* accepts, until nothing of the setup is left.                            *)
ReadyIsBacked ==
  ready # NoReady =>
    /\ life.st = "applied" /\ life.req = ready.req /\ ~life.identity
    /\ ready.cleaned \/ Retirable(ready.inv)
    /\ ready.cleaned => work[ready.inv] = NoWork /\ selector = None

(* No stop loses what the setup still needs: keys before, READY after.     *)
SetupSurvives == KeysKept /\ ReadyIsBacked

(* What Stage says of itself: it creates or resumes one exact request, so  *)
(* the material in the workspace is that of the session.                   *)
StageResumesExact ==
  \A i \in Invitations :
    work[i].session # NoSession /\ work[i].pending # 0 =>
      work[i].pending = work[i].session.req
=============================================================================
