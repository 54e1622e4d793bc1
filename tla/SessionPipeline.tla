--------------------------- MODULE SessionPipeline ---------------------------
(***************************************************************************)
(* The session loop of Captain Online: a session is evaluated once a day,  *)
(* in a window around its opening (Phase A); the opening-range tracker,    *)
(* fed by the quote thread, resolves each asset by a breakout or by its    *)
(* cutoff; every breakout goes through B6 (Phase B), which publishes the   *)
(* signal and registers its shadow; and when the last asset is resolved    *)
(* SESSION_CLOSE tells Captain Offline.  The command listener thread takes *)
(* the shadow of a TAKEN signal away.                                      *)
(*                                                                         *)
(* A run is one execution of Phase A that has something to trade; a signal *)
(* is named by its run and its asset.  What is abstracted: prices (a quote *)
(* of a complete range breaks it or not), the wall clock (ticks; a session *)
(* opens at OpenAt), sizes (the assets that sizing, selection, quality     *)
(* gate and circuit breaker let through are any subset) and the users (one,  *)
(* as deployed).  Times of day are compared without the date, as the       *)
(* tracker does.                                                           *)
(***************************************************************************)
EXTENDS Integers, FiniteSets

CONSTANTS
    Sessions,       \* session ids
    NoSession,
    Assets,
    OpenAt,         \* or_start of each session, in ticks of the day
    HomeOf,         \* asset_session_map of session_registry.json
    TradedIn,       \* the sessions in D00.session_hours of each asset
    Active,         \* assets that P3-D00 has had ACTIVE (its query takes any row)
    Window,         \* SESSION_WINDOW_MINUTES, in ticks
    OrTicks,        \* the length of an opening range, in ticks
    CutoffTicks,    \* from the opening to the cutoff, in ticks
    DayEnd,         \* bound: the last tick of a day
    MaxDay,         \* bound: days
    Attempts,       \* attempts of _publish_signals
    MaxRuns,        \* bound: runs of Phase A with something to trade
    MaxFaults,      \* bound: faults of all kinds together
    MaxAnswers      \* bound: signals taken or watched to their end

\* what fails: the early registration, a block of Phase A or B6, B8 or B9
\* after the session, one attempt of a publication, the process
Kinds == {"register", "block", "post", "redis", "crash"}
Days  == 1..MaxDay
Runs  == 1..MaxRuns
Sigs  == Runs \X Assets

ASSUME SessionsAssumption ==
    /\ NoSession \notin Sessions
    /\ OpenAt \in [Sessions -> Nat]
    /\ HomeOf \in [Assets -> Sessions] /\ TradedIn \in [Assets -> SUBSET Sessions]
    /\ Active \subseteq Assets
ASSUME TicksAssumption ==
    /\ Window \in Nat /\ OrTicks \in Nat /\ CutoffTicks \in Nat
    /\ DayEnd \in Nat /\ MaxDay \in Nat \ {0} /\ MaxRuns \in Nat
    /\ Attempts \in Nat \ {0}
    /\ MaxFaults \in Nat /\ MaxAnswers \in Nat
\* session_registry.json: the last cutoff of a day is that of APAC, 18:35
ASSUME CutoffAssumption == \A s \in Sessions : OpenAt[s] + CutoffTicks <= DayEnd

VARIABLES
    day, clock,
    orst,       \* ORTracker._sessions: state and session_date of each asset
    evaluated,  \* the sessions _session_evaluated_today has with today's date
    pending,    \* _pending_sessions: run, active and resolved assets
    pc,         \* where the session loop is
    ses,        \* the session it works on
    todo, done, \* sessions of _check_or_breakouts still to visit, completed
    hot,        \* recommended assets of newly_resolved that B6 works on
    tries,      \* attempts of _publish_signals that have raised
    shadows,    \* shadow_positions
    taken,      \* signals whose TAKEN the listener has handled
    runs,       \* runs so far
    runDay,     \* the day of each run
    runSes,     \* the session of each run
    used,       \* the session_date of the range a signal was made from
    sent,       \* entries of a signal in stream:signals
    closed,     \* SESSION_CLOSE entries of each run
    theory,     \* signals with a theoretical outcome in stream:signal_outcomes
    faults,     \* faults of each kind
    left        \* faults that may still happen

timeVars   == <<day, clock>>
passVars   == <<pc, ses, todo, done, hot, tries>>
runVars    == <<runs, runDay, runSes>>
shadowVars == <<shadows, taken, theory>>
streamVars == <<used, sent, closed>>
faultVars  == <<faults, left>>
vars == <<timeVars, orst, evaluated, pending, passVars, runVars, shadowVars,
          streamVars, faultVars>>

NoRange   == [st |-> "none", day |-> 0]
NoPending == [run |-> 0, assets |-> {}, resolved |-> {}]

Resolved  == {"broken", "expired"}

\* AssetORSession.__init__
NewRange(d) == [st |-> "waiting", day |-> d]

OrStart(a) == OpenAt[HomeOf[a]]
OrEnd(a)   == OrStart(a) + OrTicks
Cutoff(a)  == OrStart(a) + CutoffTicks

Fault(k) ==
    /\ left > 0 /\ left' = left - 1
    /\ faults' = [faults EXCEPT ![k] = @ + 1]

Init ==
    /\ day = 1 /\ clock = 0
    /\ orst = [a \in Assets |-> NoRange]
    /\ evaluated = {}
    /\ pending = [s \in Sessions |-> NoPending]
    /\ pc = "loop" /\ ses = NoSession /\ todo = {} /\ done = {} /\ hot = {}
    /\ tries = 0
    /\ shadows = {} /\ taken = {} /\ theory = {}
    /\ runs = 0 /\ runDay = [r \in Runs |-> 0]
    /\ runSes = [r \in Runs |-> NoSession]
    /\ used = [k \in Sigs |-> 0] /\ sent = [k \in Sigs |-> 0]
    /\ closed = [r \in Runs |-> 0]
    /\ faults = [k \in Kinds |-> 0] /\ left = MaxFaults

-----------------------------------------------------------------------------
(* Time.  The loop comes by every second and a tick is minutes, so time    *)
(* waits for a pass over what can be resolved; Phase A takes ticks.        *)

Pending == {s \in Sessions : pending[s].run # 0}

Overdue ==
    \E s \in Pending : \E a \in pending[s].assets \ pending[s].resolved :
        \/ orst[a].st \in Resolved
        \/ orst[a].st # "none" /\ clock >= Cutoff(a)

Tick ==
    /\ pc = "phaseA" \/ (pc = "loop" /\ ~Overdue)
    /\ clock < DayEnd
    /\ clock' = clock + 1
    /\ UNCHANGED <<day, orst, evaluated, pending, passVars, runVars,
                   shadowVars, streamVars, faultVars>>

NextDay ==
    /\ pc = "loop" /\ ~Overdue /\ clock = DayEnd /\ day < MaxDay
    /\ day' = day + 1 /\ clock' = 0 /\ evaluated' = {}
    /\ UNCHANGED <<orst, pending, passVars, runVars, shadowVars,
                   streamVars, faultVars>>

-----------------------------------------------------------------------------
(* The quote thread: ORTracker.on_quote.                                   *)

\* _update_state, with _check_breakout for a range that is complete
QuoteMoves(a) ==
    CASE orst[a].st = "waiting" /\ clock >= OrStart(a) -> {"forming"}
      [] orst[a].st = "forming" /\ clock >= OrEnd(a)   -> {"complete", "broken"}
      [] orst[a].st = "complete"                       -> {"broken"}
      [] OTHER                                         -> {}

Quote(a) ==
    /\ \E st \in QuoteMoves(a) : orst' = [orst EXCEPT ![a].st = st]
    /\ UNCHANGED <<timeVars, evaluated, pending, passVars, runVars, shadowVars,
                   streamVars, faultVars>>

-----------------------------------------------------------------------------
(* Phase A: _run_session.                                                  *)

\* is_session_opening and the guard of _is_session_opening
Opening(s) ==
    /\ s \notin evaluated
    /\ clock <= OpenAt[s] + Window /\ OpenAt[s] <= clock + Window

Evaluated(s) == evaluated' = evaluated \cup {s}

StartSession(s) ==
    /\ pc = "loop" /\ Opening(s)
    /\ pc' = "register" /\ ses' = s
    /\ UNCHANGED <<timeVars, orst, evaluated, pending, todo, done, hot, tries,
                   runVars, shadowVars, streamVars, faultVars>>

\* _circuit_breaker_check: data holds, VIX or a manual halt
HaltSession(s) ==
    /\ pc = "loop" /\ Opening(s)
    /\ Evaluated(s)
    /\ UNCHANGED <<timeVars, orst, pending, passVars, runVars, shadowVars,
                   streamVars, faultVars>>

\* get_assets_for_session
HomeAssets(s) == {a \in Assets : HomeOf[a] = s}
\* _should_track_asset: a session without assets of its own tracks them all
Tracked(s) == IF HomeAssets(s) = {} THEN Assets ELSE HomeAssets(s)

Register(A) == orst' = [a \in Assets |-> IF a \in A THEN NewRange(day) ELSE orst[a]]

\* mutant: a range that is there is kept
RegisterMissingOnly ==
    /\ pc = "register"
    /\ Register({a \in Tracked(ses) \cap Active : orst[a].st = "none"})
    /\ pc' = "phaseA"
    /\ UNCHANGED <<timeVars, evaluated, pending, ses, todo, done, hot, tries,
                   runVars, shadowVars, streamVars, faultVars>>

\* early registration, before Phase A: it overwrites what is there
RegisterEarly ==
    /\ pc = "register"
    /\ Register(Tracked(ses) \cap Active)
    /\ pc' = "phaseA"
    /\ UNCHANGED <<timeVars, evaluated, pending, ses, todo, done, hot, tries,
                   runVars, shadowVars, streamVars, faultVars>>

\* the query of P3-D00 raises: logged, "will retry after Phase A"
RegisterFails ==
    /\ pc = "register" /\ Fault("register")
    /\ pc' = "phaseA"
    /\ UNCHANGED <<timeVars, orst, evaluated, pending, ses, todo, done, hot, tries,
                   runVars, shadowVars, streamVars>>

\* _load_active_assets: every asset that D00 lists for the session
Eligible(s) == {a \in Assets : s \in TradedIn[a]}

\* run_data_ingestion: data moderation and the roll calendar hold assets back
Ingested(s) == SUBSET Eligible(s) \ {{}}

BackToLoop == pc' = "loop" /\ ses' = NoSession /\ UNCHANGED <<todo, done, hot, tries>>

NewRun ==
    /\ runs < MaxRuns /\ runs' = runs + 1
    /\ runDay' = [runDay EXCEPT ![runs'] = day]
    /\ runSes' = [runSes EXCEPT ![runs'] = ses]

\* B1 to B5C for the assets A; what the tracker does not know is registered
PhaseA(A) ==
    /\ pc = "phaseA"
    /\ A \in Ingested(ses)
    /\ NewRun
    /\ Register({a \in A \cap Tracked(ses) : orst[a].st = "none"})
    /\ pending' = [pending EXCEPT ![ses] =
          [run |-> runs', assets |-> A, resolved |-> {}]]
    /\ Evaluated(ses)
    /\ BackToLoop
    /\ UNCHANGED <<timeVars, shadowVars, streamVars, faultVars>>

\* run_data_ingestion returns None: no asset is left
PhaseANoAsset ==
    /\ pc = "phaseA"
    /\ Evaluated(ses)
    /\ BackToLoop
    /\ UNCHANGED <<timeVars, orst, pending, runVars, shadowVars, streamVars,
                   faultVars>>

\* no user has a result: the legacy path closes the session at once
PhaseANoUser ==
    /\ pc = "phaseA" /\ Eligible(ses) # {}
    /\ NewRun
    /\ closed' = [closed EXCEPT ![runs'] = @ + 1]
    /\ Evaluated(ses)
    /\ BackToLoop
    /\ UNCHANGED <<timeVars, orst, pending, shadowVars, used, sent, faultVars>>

\* an exception anywhere in Phase A: no second attempt on that day
PhaseARaises ==
    /\ pc = "phaseA" /\ Fault("block")
    /\ Evaluated(ses)
    /\ BackToLoop
    /\ UNCHANGED <<timeVars, orst, pending, runVars, shadowVars, streamVars>>

-----------------------------------------------------------------------------
(* Phase B: one pass of _check_or_breakouts.                               *)

\* mutant: an asset without a tick does not expire
ExpirableWithTicks(a) == orst[a].st \in {"forming", "complete"}

\* check_expirations: no breakout, no tick after the window, no tick at all
Expirable(a) == orst[a].st \in {"waiting", "forming", "complete"}

StartCheck ==
    /\ pc = "loop" /\ Pending # {}
    /\ orst' = [a \in Assets |->
          IF Expirable(a) /\ clock >= Cutoff(a)
          THEN [orst[a] EXCEPT !.st = "expired"] ELSE orst[a]]
    /\ pc' = "visit" /\ todo' = Pending /\ done' = {}
    /\ UNCHANGED <<timeVars, evaluated, pending, ses, hot, tries, runVars,
                   shadowVars, streamVars, faultVars>>

Newly(s) == {a \in pending[s].assets \ pending[s].resolved : orst[a].st \in Resolved}
Breakouts(s) == {a \in Newly(s) : orst[a].st = "broken"}
\* what sizing, selection, quality gate and breaker may have recommended
Recommended(s) == SUBSET Breakouts(s)
KeysOf(s, A) == {<<pending[s].run, a>> : a \in A}

\* mutant: an asset that broke out is left to be resolved again
VisitExpiredOnly(s, H) ==
    /\ pc = "visit" /\ s \in todo /\ H \in Recommended(s)
    /\ pending' = [pending EXCEPT ![s].resolved = @ \cup
          {a \in Newly(s) : orst[a].st = "expired"}]
    /\ hot' = H
    /\ used' = [k \in Sigs |-> IF k \in KeysOf(s, H) THEN orst[k[2]].day ELSE used[k]]
    /\ pc' = "b6" /\ ses' = s
    /\ UNCHANGED <<timeVars, orst, evaluated, todo, done, tries, runVars,
                   shadowVars, sent, closed, faultVars>>

\* the assets of the session that the tracker has resolved since; B6 is for
\* those of them that Phase A has recommended, H
Visit(s, H) ==
    /\ pc = "visit" /\ s \in todo /\ H \in Recommended(s)
    /\ pending' = [pending EXCEPT ![s].resolved = @ \cup Newly(s)]
    /\ hot' = H
    /\ used' = [k \in Sigs |-> IF k \in KeysOf(s, H) THEN orst[k[2]].day ELSE used[k]]
    /\ pc' = "b6" /\ ses' = s
    /\ UNCHANGED <<timeVars, orst, evaluated, todo, done, tries, runVars,
                   shadowVars, sent, closed, faultVars>>

\* the entry of stream:signals, with the assets in hot
Send == sent' = [k \in Sigs |-> IF k \in KeysOf(ses, hot) THEN sent[k] + 1 ELSE sent[k]]

\* B6 for the assets in hot: an attempt of _publish_signals is answered
PublishSignals ==
    /\ pc = "b6" /\ hot # {}
    /\ Send
    /\ pc' = "log" /\ tries' = 0
    /\ UNCHANGED <<timeVars, orst, evaluated, pending, ses, todo, done, hot,
                   runVars, shadowVars, used, closed, faultVars>>

\* an attempt raises: the entry was not added, or only the answer is lost;
\* the same payload again, or after the last attempt an alert, and B6 returns
\* the signals all the same
PublishFails ==
    /\ pc = "b6" /\ hot # {} /\ Fault("redis")
    /\ Send \/ UNCHANGED sent
    /\ IF tries + 1 < Attempts THEN pc' = "b6"  /\ tries' = tries + 1
                               ELSE pc' = "log" /\ tries' = 0
    /\ UNCHANGED <<timeVars, orst, evaluated, pending, ses, todo, done, hot,
                   runVars, shadowVars, used, closed>>

\* _log_signal_output
LogSignals ==
    /\ pc = "log"
    /\ pc' = "shadow"
    /\ UNCHANGED <<timeVars, orst, evaluated, pending, ses, todo, done, hot, tries,
                   runVars, shadowVars, streamVars, faultVars>>

\* _run_b6_for_user swallows what B6 raises, before or after the publication
B6Raises ==
    /\ \/ pc = "b6" /\ hot # {} /\ tries = 0 /\ Fault("block")
       \/ pc = "log" /\ Fault("block")
    /\ hot' = {} /\ pc' = "post"
    /\ UNCHANGED <<timeVars, orst, evaluated, pending, ses, todo, done, tries,
                   runVars, shadowVars, streamVars>>

\* mutant: the shadow of a published signal is dropped
RegisterNoShadow(a) ==
    /\ pc = "shadow" /\ a \in hot
    /\ hot' = hot \ {a}
    /\ UNCHANGED <<timeVars, orst, evaluated, pending, pc, ses, todo, done,
                   tries, runVars, shadowVars, streamVars, faultVars>>

\* register_shadow_position and its append, signal by signal, under the lock
RegisterShadow(a) ==
    /\ pc = "shadow" /\ a \in hot
    /\ shadows' = shadows \cup {<<pending[ses].run, a>>}
    /\ hot' = hot \ {a}
    /\ UNCHANGED <<timeVars, orst, evaluated, pending, pc, ses, todo, done,
                   tries, runVars, taken, theory, streamVars, faultVars>>

PhaseBDone ==
    /\ pc \in {"b6", "shadow"} /\ hot = {}
    /\ pc' = "post"
    /\ UNCHANGED <<timeVars, orst, evaluated, pending, ses, todo, done, hot, tries,
                   runVars, shadowVars, streamVars, faultVars>>

Complete(s) == pending[s].assets \subseteq pending[s].resolved

VisitNext(completed) ==
    /\ pc' = "visit" /\ ses' = NoSession
    /\ todo' = todo \ {ses} /\ done' = done \cup completed
    /\ UNCHANGED <<hot, tries>>

NotComplete ==
    /\ pc = "post" /\ ~Complete(ses)
    /\ VisitNext({})
    /\ UNCHANGED <<timeVars, orst, evaluated, pending, runVars, shadowVars,
                   streamVars, faultVars>>

Closed == closed' = [closed EXCEPT ![pending[ses].run] = @ + 1]

\* capacity evaluation, then SESSION_CLOSE
CloseSession ==
    /\ pc = "post" /\ Complete(ses)
    /\ Closed
    /\ VisitNext({ses})
    /\ UNCHANGED <<timeVars, orst, evaluated, pending, runVars, shadowVars,
                   used, sent, faultVars>>

\* the publication raises, with or without effect: logged, and the session
\* counts as completed
CloseFails ==
    /\ pc = "post" /\ Complete(ses) /\ Fault("redis")
    /\ Closed \/ UNCHANGED closed
    /\ VisitNext({ses})
    /\ UNCHANGED <<timeVars, orst, evaluated, pending, runVars, shadowVars,
                   used, sent>>

\* B8 or B9 raises: the rest of the pass is skipped, the pop included
PostLoopRaises ==
    /\ pc = "post" /\ Complete(ses) /\ Fault("post")
    /\ pc' = "loop" /\ ses' = NoSession /\ todo' = {} /\ done' = {}
    /\ UNCHANGED <<timeVars, orst, evaluated, pending, hot, tries, runVars,
                   shadowVars, streamVars>>

\* mutant: completed sessions are not popped
EndCheckNoPop ==
    /\ pc = "visit" /\ todo = {}
    /\ pc' = "loop" /\ done' = {}
    /\ UNCHANGED <<timeVars, orst, evaluated, pending, ses, todo, hot, tries,
                   runVars, shadowVars, streamVars, faultVars>>

EndCheck ==
    /\ pc = "visit" /\ todo = {}
    /\ pending' = [s \in Sessions |-> IF s \in done THEN NoPending ELSE pending[s]]
    /\ pc' = "loop" /\ done' = {}
    /\ UNCHANGED <<timeVars, orst, evaluated, ses, todo, hot, tries,
                   runVars, shadowVars, streamVars, faultVars>>

-----------------------------------------------------------------------------
(* Shadows: the monitor of the session loop and the command listener.      *)

Answerable == Cardinality(taken \cup theory) < MaxAnswers

\* TP, SL or the age limit; the outcome is published
ResolveShadow(k) ==
    /\ pc = "loop" /\ k \in shadows /\ Answerable
    /\ shadows' = shadows \ {k} /\ theory' = theory \cup {k}
    /\ UNCHANGED <<timeVars, orst, evaluated, pending, passVars, runVars,
                   taken, streamVars, faultVars>>

\* three attempts raise, with or without effect, or the shadow has no entry
\* price
ResolveShadowFails(k) ==
    /\ pc = "loop" /\ k \in shadows /\ Fault("redis")
    /\ shadows' = shadows \ {k}
    /\ theory' \in {theory, theory \cup {k}}
    /\ UNCHANGED <<timeVars, orst, evaluated, pending, passVars, runVars,
                   taken, streamVars>>

\* _handle_taken_skipped: a TAKEN drops the shadow if there is one by now
TakeSignal(k) ==
    /\ sent[k] > 0 /\ k \notin taken /\ Answerable
    /\ taken' = taken \cup {k} /\ shadows' = shadows \ {k}
    /\ UNCHANGED <<timeVars, orst, evaluated, pending, passVars, runVars,
                   theory, streamVars, faultVars>>

\* A crash, or an exception of the breaker check that leaves the loop; the
\* container restarts the process, and nothing of this module is restored.
Crash ==
    /\ Fault("crash")
    /\ orst' = [a \in Assets |-> NoRange]
    /\ evaluated' = {}
    /\ pending' = [s \in Sessions |-> NoPending]
    /\ pc' = "loop" /\ ses' = NoSession /\ todo' = {} /\ done' = {} /\ hot' = {}
    /\ tries' = 0
    /\ shadows' = {}
    /\ UNCHANGED <<timeVars, runVars, taken, theory, streamVars>>

-----------------------------------------------------------------------------
PhaseAStep ==
    \/ \E s \in Sessions : StartSession(s) \/ HaltSession(s)
    \/ RegisterEarly \/ PhaseANoAsset \/ PhaseANoUser
    \/ \E A \in SUBSET Assets : PhaseA(A)

PhaseBStep ==
    \/ StartCheck \/ PublishSignals \/ LogSignals \/ PhaseBDone
    \/ NotComplete \/ CloseSession \/ EndCheck
    \/ \E s \in Sessions, H \in SUBSET Assets : Visit(s, H)
    \/ \E a \in Assets : RegisterShadow(a)

FaultStep ==
    \/ RegisterFails \/ PhaseARaises \/ PublishFails \/ B6Raises \/ CloseFails
    \/ PostLoopRaises \/ Crash
    \/ \E k \in Sigs : ResolveShadowFails(k)

Next ==
    \/ Tick \/ NextDay
    \/ PhaseAStep \/ PhaseBStep \/ FaultStep
    \/ \E a \in Assets : Quote(a)
    \/ \E k \in Sigs : ResolveShadow(k) \/ TakeSignal(k)

Spec == Init /\ [][Next]_vars

\* The loop runs for ever, and time passes whatever the loop is busy with.
Fairness == WF_vars(PhaseAStep) /\ WF_vars(PhaseBStep) /\ SF_vars(Tick \/ NextDay)

FairSpec == Spec /\ Fairness

-----------------------------------------------------------------------------
(* Properties.                                                             *)

RangeType   == [st : {"none", "waiting", "forming", "complete", "broken", "expired"},
                day : 0..MaxDay]
PendingType == [run : 0..MaxRuns, assets : SUBSET Assets,
                resolved : SUBSET Assets]

TimeOK == day \in 0..MaxDay /\ clock \in 0..DayEnd

PassOK ==
    /\ pc \in {"loop", "register", "phaseA", "visit", "b6", "log", "shadow", "post"}
    /\ ses \in Sessions \cup {NoSession}
    /\ pc \notin {"loop", "visit"} => ses \in Sessions
    /\ todo \subseteq Sessions /\ done \subseteq Sessions /\ hot \subseteq Assets
    /\ tries \in 0..(Attempts - 1)

HistoryOK ==
    /\ runs \in 0..MaxRuns /\ runDay \in [Runs -> 0..MaxDay]
    /\ runSes \in [Runs -> Sessions \cup {NoSession}]
    /\ used \in [Sigs -> 0..MaxDay] /\ sent \in [Sigs -> Nat]
    /\ closed \in [Runs -> Nat]
    /\ faults \in [Kinds -> Nat] /\ left \in 0..MaxFaults

\* Every variable has its type; while the loop works in Phase B the session
\* it works on is pending.
TypeOK ==
    /\ TimeOK /\ PassOK /\ HistoryOK
    /\ orst \in [Assets -> RangeType]
    /\ evaluated \subseteq Sessions
    /\ pending \in [Sessions -> PendingType]
    /\ shadows \subseteq Sigs /\ taken \subseteq Sigs /\ theory \subseteq Sigs
    /\ pc \in {"b6", "log", "shadow", "post"} => ses \in todo
    /\ todo \subseteq Pending

\* Offline trains once per session: a run publishes SESSION_CLOSE once, and
\* again only for each time that B8 or B9 has cut a pass short before the
\* sessions it had completed were popped.
CloseOncePerRun == \A r \in Runs : closed[r] <= 1 + faults["post"]

\* An ACTIVE asset is traded in its own session on the opening range of that
\* very day, never on a breakout the tracker still holds from an earlier day
\* or an earlier run (unless the early registration has failed).
FreshRange ==
    \A r \in Runs, a \in Active :
        used[<<r, a>>] # 0 /\ HomeOf[a] = runSes[r] /\ faults["register"] = 0
            => used[<<r, a>>] = runDay[r]

InB6(k) == pc = "b6" /\ k \in KeysOf(ses, hot)

\* A breakout of a recommended asset becomes one signal of its run, although
\* the asset is marked resolved before B6 has run, and although the payload is
\* sent again when an attempt raises: a second entry was paid for by a Redis
\* error, never more than the attempts of one publication; one that gets none
\* by an exception in B6, a Redis error or a crash.
BreakoutSignalledOnce ==
    \A k \in Sigs :
        /\ sent[k] <= 1 + faults["redis"] /\ sent[k] <= Attempts
        /\ used[k] # 0 /\ sent[k] = 0 /\ ~InB6(k)
              => faults["block"] + faults["redis"] + faults["crash"] > 0

ShadowDue(k) == pc \in {"log", "shadow"} /\ k \in KeysOf(ses, hot)

\* "Tracks ALL signals generated by B6": a published signal that nobody took
\* has a shadow until its theoretical outcome is published; a lost one was
\* paid for by a failed log row, a failed publication or a crash.
UntakenHasShadow ==
    \A k \in Sigs :
        sent[k] > 0 /\ k \notin taken \cup shadows \cup theory /\ ~ShadowDue(k)
            => faults["block"] + faults["redis"] + faults["crash"] > 0

\* A pending session whose assets the tracker knows is closed in the end,
\* with or without quotes, with or without a failing post-loop block (or it
\* is lost by a crash).
SessionCloses ==
    \A s \in Sessions, r \in Runs :
        pending[s].run = r /\ (\A a \in pending[s].assets : orst[a].st # "none")
            ~> pending[s].run # r

=============================================================================
