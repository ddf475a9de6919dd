----------------------------- MODULE ServiceProofs -----------------------------
(***************************************************************************)
(* What six services beside the pipelines promise: custom domains, for any *)
(* number of requests at once; the start of the Temporal workers, for any  *)
(* number of setbacks and retries; the tracking of journeys, for any       *)
(* number of journeys and mishaps; the buffers of the segments, for any    *)
(* number of contacts, segments and flushes; the journeys of a contact,    *)
(* for any journey, deliveries, sessions and incidents; and the counted    *)
(* clicks of a link, for any number of synchronisations at once.           *)
(***************************************************************************)
EXTENDS CustomDomains, TemporalWorkers, JourneyTracking, SegmentBuffers, Journeys,
        ClickCounts, FiniteSetTheorems, TLAPS

-------------------------------------------------------------------------------
(* CustomDomains: who has seen the domain verified may bind a link to it.   *)

Tasks == [op : DomainOps \cup {"none"},
          pc : {"idle", "read", "dns", "save", "remove", "slug", "insert"},
          copy : Domains \cup {NoDomain}]

DomainTypeOK ==
    /\ domain \in Domains \cup {NoDomain}
    /\ task \in [Callers -> Tasks]

\* A domain that somebody has seen verified is, unless it was removed or its
\* verification overwritten.
StillVerified == domain = NoDomain \/ domain.verified \/ undone

\* A request is past its read with a copy of the domain, and one that is to
\* insert a link has seen the domain verified.
DomainInv ==
    /\ DomainTypeOK
    /\ LinksOnVerifiedDomains
    /\ \A c \in Callers :
        /\ task[c].pc \in {"dns", "save", "slug", "insert"} => task[c].copy \in Domains
        /\ task[c].pc = "insert" => StillVerified
        /\ task[c].pc = "slug" /\ task[c].copy.verified => StillVerified

\* A request that ends, or moves on to a place where nothing is asked of it.
LEMMA DomainMove ==
    ASSUME DomainInv, NEW c \in Callers, NEW t \in Tasks,
           task' = [task EXCEPT ![c] = t],
           domain' \in Domains \cup {NoDomain},
           LinksOnVerifiedDomains', StillVerified => StillVerified',
           t.pc \in {"dns", "save", "slug", "insert"} => t.copy \in Domains,
           t.pc = "insert" => StillVerified',
           t.pc = "slug" /\ t.copy.verified => StillVerified'
    PROVE  DomainInv'
  <1>1. DomainTypeOK'
    BY DEF DomainInv, DomainTypeOK
  <1>2. ASSUME NEW d \in Callers
        PROVE  /\ task'[d].pc \in {"dns", "save", "slug", "insert"} => task'[d].copy \in Domains
               /\ task'[d].pc = "insert" => StillVerified'
               /\ task'[d].pc = "slug" /\ task'[d].copy.verified => StillVerified'
    <2>1. CASE d = c
      BY <2>1 DEF DomainInv, DomainTypeOK
    <2>2. CASE d # c
      BY <2>2 DEF DomainInv, DomainTypeOK
    <2>3. QED
      BY <2>1, <2>2
  <1>3. QED
    BY <1>1, <1>2 DEF DomainInv

LEMMA DomainStepKeeps ==
    ASSUME DomainInv, NEW c \in Callers, DomainStep(c)
    PROVE  DomainInv'
  <1> USE NoDomainAssumption
  <1>1. /\ Waiting \in Tasks /\ Waiting.pc = "idle"
        /\ task \in [Callers -> Tasks] /\ task[c] \in Tasks
        /\ domain \in Domains \cup {NoDomain}
    BY DEF DomainInv, DomainTypeOK, Waiting, Tasks, DomainOps
  <1>2. ASSUME UNCHANGED <<domain, link, undone>>
        PROVE  /\ LinksOnVerifiedDomains'
               /\ StillVerified => StillVerified'
               /\ domain' \in Domains \cup {NoDomain}
    BY <1>1, <1>2 DEF DomainInv, LinksOnVerifiedDomains, StillVerified
  <1>3. ASSUME NEW op \in DomainOps, StartCall(c, op) PROVE DomainInv'
    <2> DEFINE t == [Waiting EXCEPT !.op = op, !.pc = "read"]
    <2>1. t \in Tasks /\ t.pc = "read" /\ task' = [task EXCEPT ![c] = t]
      BY <1>3 DEF StartCall, Tasks, Waiting
    <2>2. QED
      BY <1>2, <1>3, <2>1, DomainMove DEF StartCall
  <1>4. ASSUME EndCall(c), UNCHANGED <<domain, link, undone>> PROVE DomainInv'
    BY <1>1, <1>2, <1>4, DomainMove DEF EndCall
  <1>5. ASSUME NEW op \in DomainOps, NEW pc \in {"dns", "save", "remove", "slug"},
               Read(c, op, pc)
        PROVE  DomainInv'
    <2>1. CASE domain = NoDomain
      BY <1>4, <1>5, <2>1 DEF Read
    <2>2. CASE domain # NoDomain
      <3> DEFINE t == [task[c] EXCEPT !.pc = pc, !.copy = domain]
      <3>1. t \in Tasks /\ t.pc = pc /\ t.copy = domain
        BY <1>1 DEF Tasks
      <3>2. task' = [task EXCEPT ![c] = t] /\ UNCHANGED <<domain, link, undone>>
        BY <1>1, <1>5, <2>2 DEF Read
      <3>3. t.copy.verified => StillVerified'
        BY <3>1, <3>2 DEF StillVerified
      <3>4. QED
        BY <1>1, <1>2, <2>2, <3>1, <3>2, <3>3, DomainMove
    <2>3. QED
      BY <2>1, <2>2
  <1>6. CASE CheckDns(c)
    <2>1. CASE EndCall(c)
      BY <1>4, <1>6, <2>1 DEF CheckDns
    <2>2. CASE ~EndCall(c)
      <3> DEFINE copy == [verified |-> TRUE, active |-> TRUE]
                 t == [task[c] EXCEPT !.pc = "save", !.copy = copy]
      <3>1. t \in Tasks /\ t.pc = "save" /\ t.copy \in Domains
        BY <1>1 DEF Tasks, Domains
      <3>2. task' = [task EXCEPT ![c] = t] /\ UNCHANGED <<domain, link, undone>>
        BY <1>1, <1>6, <2>2 DEF CheckDns
      <3>3. QED
        BY <1>2, <3>1, <3>2, DomainMove
    <2>3. QED
      BY <2>1, <2>2
  <1>7. CASE SaveDomain(c)
    <2>1. task[c].copy \in Domains /\ EndCall(c) /\ link' = link
      BY <1>7 DEF SaveDomain, DomainInv
    <2>2. /\ domain' \in Domains
          /\ domain' = task[c].copy \/ domain'.verified = task[c].copy.verified
      BY <1>7, <2>1 DEF SaveDomain, SwitchOf, Domains
    <2>3. undone' = (undone \/ (~domain'.verified /\ domain # task[c].copy))
      BY <1>7 DEF SaveDomain
    <2>4. StillVerified => domain'.verified \/ undone'
      <3>1. CASE domain = task[c].copy
        BY <2>1, <2>2, <2>3, <3>1 DEF StillVerified
      <3>2. CASE domain # task[c].copy
        BY <2>3, <3>2
      <3>3. QED
        BY <3>1, <3>2
    <2>5. StillVerified => StillVerified'
      BY <2>4 DEF StillVerified
    <2>6. LinksOnVerifiedDomains'
      BY <2>1, <2>2, <2>4 DEF LinksOnVerifiedDomains, DomainInv, StillVerified
    <2>7. QED
      BY <1>1, <2>1, <2>2, <2>5, <2>6, DomainMove DEF EndCall
  <1>8. CASE RemoveDomain(c)
    <2>1. domain' = NoDomain /\ link' # "bound" /\ EndCall(c)
      BY <1>8 DEF RemoveDomain
    <2>2. LinksOnVerifiedDomains' /\ StillVerified'
      BY <2>1 DEF LinksOnVerifiedDomains, StillVerified
    <2>3. QED
      BY <1>1, <2>1, <2>2, DomainMove DEF EndCall
  <1>9. CASE CheckSlug(c)
    <2>1. CASE EndCall(c)
      BY <1>4, <1>9, <2>1 DEF CheckSlug
    <2>2. CASE ~EndCall(c)
      <3> DEFINE t == [task[c] EXCEPT !.pc = "insert"]
      <3>1. t \in Tasks /\ t.pc = "insert" /\ t.copy = task[c].copy
        BY <1>1 DEF Tasks
      <3>2. /\ task[c].pc = "slug" /\ task[c].copy.verified
            /\ task' = [task EXCEPT ![c] = t] /\ UNCHANGED <<domain, link, undone>>
        BY <1>1, <1>9, <2>2 DEF CheckSlug, IsVerified
      <3>3. t.copy \in Domains /\ StillVerified
        BY <3>1, <3>2 DEF DomainInv
      <3>4. QED
        BY <1>2, <3>1, <3>2, <3>3, DomainMove
    <2>3. QED
      BY <2>1, <2>2
  <1>10. CASE InsertLink(c)
    <2>1. EndCall(c) /\ UNCHANGED <<domain, undone>> /\ StillVerified
      BY <1>10 DEF InsertLink, DomainInv
    <2>2. LinksOnVerifiedDomains'
      BY <1>10, <2>1 DEF InsertLink, LinksOnVerifiedDomains, StillVerified, DomainInv
    <2>3. StillVerified'
      BY <2>1 DEF StillVerified
    <2>4. QED
      BY <1>1, <2>1, <2>2, <2>3, DomainMove DEF EndCall
  <1>11. QED
    BY <1>3, <1>5, <1>6, <1>7, <1>8, <1>9, <1>10 DEF DomainStep, DomainOps

\* However many requests overlap, a link is bound only to a domain that exists
\* and is verified, or whose verification an older copy has overwritten.
THEOREM LinksStayOnVerifiedDomains == DomainSpec => []LinksOnVerifiedDomains
  <1>1. DomainInit => DomainInv
    BY NoDomainAssumption DEF DomainInit, DomainInv, DomainTypeOK, Registered,
       Domains, Tasks, Waiting, DomainOps, LinksOnVerifiedDomains
  <1>2. DomainInv /\ [\E c \in Callers : DomainStep(c)]_domainVars => DomainInv'
    <2>1. ASSUME DomainInv, UNCHANGED domainVars PROVE DomainInv'
      BY <2>1 DEF domainVars, DomainInv, DomainTypeOK, LinksOnVerifiedDomains, StillVerified
    <2>2. QED
      BY <2>1, DomainStepKeeps
  <1>3. DomainInv => LinksOnVerifiedDomains
    BY DEF DomainInv
  <1>4. QED
    BY <1>1, <1>2, <1>3, PTL DEF DomainSpec

-------------------------------------------------------------------------------
(* TemporalWorkers: what a service that gives up has behind it.             *)

Starts == {"off", "connect", "create", "pause", "later", "done"}

WorkersTypeOK ==
    /\ process \in {"starting", "serving", "exited"}
    /\ start \in [Services -> Starts]
    /\ retries \in [Services -> Nat]
    /\ connection \in [Services -> BOOLEAN]
    /\ polling \in [Services -> {"none", "polls", "failed"}]

\* The campaign worker counts no more retries than it makes; a production
\* process that is starting has no round of the journey worker behind it.
WorkersInv ==
    /\ WorkersTypeOK
    /\ retries["campaign"] <= MaxRetries
    /\ production /\ process = "starting" =>
         /\ start["journey"] # "later"
         /\ start["journey"] = "done" => polling["journey"] # "none"
    /\ WorkersKeepTrying

LEMMA WorkersStepKeeps ==
    ASSUME WorkersInv, WorkersStep
    PROVE  WorkersInv'
  <1> USE RetriesAssumption DEF WorkersInv, WorkersTypeOK, WorkersKeepTrying,
        WorkerNotForgotten, OneWorker, Up, Services, Starts, Moves
  <1>1. ASSUME NEW s \in Services, Connect(s) PROVE WorkersInv'
    <2>1. CASE Moves(s, "create") /\ connection' = [connection EXCEPT ![s] = TRUE]
                 /\ UNCHANGED <<process, retries>>
      <3>1. connection' \in [Services -> BOOLEAN]
        BY <2>1, Zenon
      <3>2. QED
        BY <1>1, <2>1, <3>1 DEF Connect
    <2>2. CASE Retries(s) /\ UNCHANGED connection /\ s = "journey"
      BY <1>1, <2>2 DEF Connect, Retries, JourneyRetries
    <2>3. CASE Retries(s) /\ UNCHANGED connection /\ s = "campaign"
      BY <1>1, <2>3 DEF Connect, Retries, CampaignRetries
    <2>4. QED
      BY <1>1, <2>1, <2>2, <2>3 DEF Connect
  <1>2. ASSUME NEW s \in Services, Create(s) PROVE WorkersInv'
    <2>1. CASE s = "journey"
      BY <1>2, <2>1 DEF Create, Retries, JourneyRetries
    <2>2. CASE s = "campaign"
      BY <1>2, <2>2 DEF Create, Retries, CampaignRetries
    <2>3. QED
      BY <2>1, <2>2
  <1>3. ASSUME NEW s \in Services, Resume(s) PROVE WorkersInv'
    BY <1>3 DEF Resume
  <1>4. ASSUME NEW s \in Services, RetryLater(s) PROVE WorkersInv'
    BY <1>4 DEF RetryLater
  <1>5. ASSUME NEW s \in Services, WorkerEnds(s) PROVE WorkersInv'
    <2>1. CASE s = "journey"
      BY <1>5, <2>1 DEF WorkerEnds
    <2>2. CASE s = "campaign"
      BY <1>5, <2>2 DEF WorkerEnds, CampaignRetries
    <2>3. QED
      BY <2>1, <2>2
  <1>6. CASE Serve
    BY <1>6 DEF Serve
  <1>7. QED
    BY <1>1, <1>2, <1>3, <1>4, <1>5, <1>6 DEF WorkersStep

\* Whatever fails, however often: as long as the process is up each service has
\* a worker or is about to have one, but for the ways in which it gives up.
THEOREM WorkersAreKept == WorkersSpec => []WorkersKeepTrying
  <1>1. WorkersInit => WorkersInv
    BY RetriesAssumption DEF WorkersInit, WorkersInv, WorkersTypeOK, RunModes, Services, Starts,
       WorkersKeepTrying, WorkerNotForgotten, OneWorker
  <1>2. WorkersInv /\ UNCHANGED workerVars => WorkersInv'
    BY DEF workerVars, WorkersInv, WorkersTypeOK, WorkersKeepTrying, WorkerNotForgotten,
       OneWorker, Up
  <1>3. WorkersInv => WorkersKeepTrying
    BY DEF WorkersInv
  <1>4. QED
    BY <1>1, <1>2, <1>3, WorkersStepKeeps, PTL DEF WorkersSpec

-------------------------------------------------------------------------------
(* JourneyTracking: no attempt ends answered with its event unaccounted for.*)

TripRecords == [at : Stages, status : {"active", "completed", "failed"},
                cause : {"none", "node", "late"}, over : BOOLEAN]

TrackingTypeOK ==
    /\ trip \in [Trips -> TripRecords]
    /\ attempt \in [Trips -> [Stages ->
           {"none", "connecting", "send", "skip", "answered", "lost"}]]

TrackingInv == TrackingTypeOK /\ TrackingStaysOut

LEMMA StagesAre == Ending = 4 /\ FailedEvent = 5 /\ Stages = 1 .. 5
  BY DEF Ending, FailedEvent, Stages, JourneyEvents, NodeEvents

LEMMA ItsStages == 1 \in Stages /\ FailedEvent \in Stages
  BY StagesAre

\* An attempt that ends answered has its event sent or excused.
LEMMA AttemptMoves ==
    ASSUME TrackingInv, NEW j \in Trips, NEW k \in Stages,
           NEW pc \in {"none", "connecting", "send", "skip", "answered", "lost"},
           Becomes(j, k, pc), trip' = trip,
           sent \subseteq sent', excused \subseteq excused',
           pc = "answered" => <<j, k>> \in sent' \cup excused'
    PROVE  TrackingInv'
  <1>1. TrackingTypeOK'
    BY DEF TrackingInv, TrackingTypeOK, Becomes
  <1>2. ASSUME NEW i \in Trips, NEW l \in Stages, attempt'[i][l] = "answered"
        PROVE  <<i, l>> \in sent' \cup excused'
    <2>1. CASE i = j /\ l = k
      BY <1>2, <2>1 DEF TrackingInv, TrackingTypeOK, Becomes
    <2>2. CASE ~(i = j /\ l = k)
      <3>1. attempt[i][l] = "answered"
        BY <1>2, <2>2 DEF TrackingInv, TrackingTypeOK, Becomes
      <3>2. QED
        BY <3>1 DEF TrackingInv, TrackingStaysOut
    <2>3. QED
      BY <2>1, <2>2
  <1>3. QED
    BY <1>1, <1>2 DEF TrackingInv, TrackingStaysOut

\* A journey that moves on takes no event back and fails for a reason.
LEMMA TripMoves ==
    ASSUME TrackingInv, NEW j \in Trips,
           NEW t \in TripRecords,
           trip' = [trip EXCEPT ![j] = t], attempt' = attempt,
           sent \subseteq sent', excused \subseteq excused',
           t.status = "failed" => t.cause # "none"
    PROVE  TrackingInv'
  <1>1. TrackingTypeOK'
    BY DEF TrackingInv, TrackingTypeOK
  <1>2. \A i \in Trips : trip'[i].status = "failed" => trip'[i].cause # "none"
    BY DEF TrackingInv, TrackingTypeOK, TrackingStaysOut
  <1>3. QED
    BY <1>1, <1>2 DEF TrackingInv, TrackingStaysOut

LEMMA TrackingStepKeeps ==
    ASSUME TrackingInv, TrackingStep
    PROVE  TrackingInv'
  <1> DEFINE Pcs == {"none", "connecting", "send", "skip", "answered", "lost"}
  <1>1. ASSUME NEW j \in Trips
        PROVE  /\ trip[j].at \in Stages
               /\ trip[j] \in TripRecords
               /\ trip[j].status = "failed" => trip[j].cause # "none"
    BY DEF TrackingInv, TrackingTypeOK, TrackingStaysOut, TripRecords
  <1>2. ASSUME NEW j \in Trips, NEW k \in Stages,
               Connected(j, k) \/ ConnectFails(j, k) \/ Send(j, k) \/ Skip(j, k)
        PROVE  TrackingInv'
    <2>1. PICK pc \in Pcs : /\ Becomes(j, k, pc)
                            /\ pc = "answered" => <<j, k>> \in sent' \cup excused'
      BY <1>2 DEF Connected, ConnectFails, Send, Skip
    <2>2. trip' = trip /\ sent \subseteq sent' /\ excused \subseteq excused'
      BY <1>2 DEF Connected, ConnectFails, Send, Skip
    <2>3. QED
      BY <2>1, <2>2, AttemptMoves
  <1>3. ASSUME NEW j \in Trips, Enter(j) PROVE TrackingInv'
    <2>1. PICK pc \in Pcs : Becomes(j, trip[j].at, pc) /\ pc # "answered"
      BY <1>3 DEF Enter, Sending
    <2>2. UNCHANGED <<trip, sent, excused>>
      BY <1>3 DEF Enter
    <2>3. QED
      BY <1>1, <2>1, <2>2, AttemptMoves
  <1>4. ASSUME NEW j \in Trips, Proceed(j) PROVE TrackingInv'
    <2> DEFINE k == trip[j].at
               t == IF k >= Ending THEN [trip[j] EXCEPT !.over = TRUE]
                    ELSE [trip[j] EXCEPT !.at = k + 1, !.status = Status(k + 1, trip[j].status)]
    <2>1. trip' = [trip EXCEPT ![j] = t] /\ UNCHANGED <<attempt, sent, excused>>
      BY <1>4 DEF Proceed, TrackingInv, TrackingTypeOK
    <2> HIDE DEF t
    <2>2. t \in TripRecords /\ (t.status = "failed" => t.cause # "none")
      <3>1. CASE k >= Ending
        <4>1. t = [trip[j] EXCEPT !.over = TRUE]
          BY <3>1 DEF t
        <4>2. QED
          BY <1>1, <4>1 DEF TripRecords
      <3>2. CASE ~(k >= Ending)
        <4>1. t = [trip[j] EXCEPT !.at = k + 1, !.status = Status(k + 1, trip[j].status)]
          BY <3>2 DEF t
        <4>2. k + 1 \in Stages
          BY <1>1, <3>2, StagesAre
        <4>3. QED
          BY <1>1, <4>1, <4>2 DEF TripRecords, Status
      <3>3. QED
        BY <3>1, <3>2
    <2>3. QED
      BY <2>1, <2>2, TripMoves
  <1>5. ASSUME NEW j \in Trips, NodeOfTripFails(j) PROVE TrackingInv'
    <2> DEFINE t == [trip[j] EXCEPT !.at = FailedEvent, !.status = "failed", !.cause = "node"]
    <2>1. trip' = [trip EXCEPT ![j] = t] /\ UNCHANGED <<attempt, sent, excused>>
      BY <1>5 DEF NodeOfTripFails, TrackingInv, TrackingTypeOK
    <2>2. t \in TripRecords /\ (t.status = "failed" => t.cause # "none")
      BY <1>1, ItsStages DEF TripRecords
    <2>3. QED
      BY <2>1, <2>2, TripMoves
  <1>6. ASSUME NEW j \in Trips, TooLate(j) PROVE TrackingInv'
    <2> DEFINE t == IF trip[j].at = FailedEvent THEN [trip[j] EXCEPT !.over = TRUE]
                    ELSE [trip[j] EXCEPT !.at = FailedEvent, !.status = "failed", !.cause = "late"]
    <2>1. /\ trip' = [trip EXCEPT ![j] = t] /\ UNCHANGED <<attempt, sent>>
          /\ excused \subseteq excused'
      BY <1>6 DEF TooLate, TrackingInv, TrackingTypeOK
    <2> HIDE DEF t
    <2>2. t \in TripRecords /\ (t.status = "failed" => t.cause # "none")
      <3>1. CASE trip[j].at = FailedEvent
        <4>1. t = [trip[j] EXCEPT !.over = TRUE]
          BY <3>1 DEF t
        <4>2. QED
          BY <1>1, <4>1 DEF TripRecords
      <3>2. CASE trip[j].at # FailedEvent
        <4>1. t = [trip[j] EXCEPT !.at = FailedEvent, !.status = "failed", !.cause = "late"]
          BY <3>2 DEF t
        <4>2. QED
          BY <1>1, <4>1, ItsStages DEF TripRecords
      <3>3. QED
        BY <3>1, <3>2
    <2>3. QED
      BY <2>1, <2>2, TripMoves
  <1>7. CASE WorkerRestarts
    <2>1. /\ TrackingTypeOK' /\ UNCHANGED <<trip, sent, excused>>
          /\ \A j \in Trips, k \in Stages :
                attempt'[j][k] = "answered" => attempt[j][k] = "answered"
      BY <1>7 DEF WorkerRestarts, TrackingInv, TrackingTypeOK
    <2>2. QED
      BY <2>1 DEF TrackingInv, TrackingStaysOut
  <1>8. QED
    BY <1>2, <1>3, <1>4, <1>5, <1>6, <1>7 DEF TrackingStep

\* For any number of journeys in a worker: no error of Kafka fails one, and an
\* event is missing only for a mishap of its own.
THEOREM TrackingNeverFailsAJourney == TrackingSpec => []TrackingStaysOut
  <1>1. TrackingInit => TrackingInv
    BY ItsStages DEF TrackingInit, TrackingInv, TrackingTypeOK, TrackingStaysOut, TripRecords
  <1>2. TrackingInv /\ UNCHANGED trackingVars => TrackingInv'
    BY DEF trackingVars, TrackingInv, TrackingTypeOK, TrackingStaysOut
  <1>3. TrackingInv => TrackingStaysOut
    BY DEF TrackingInv
  <1>4. QED
    BY <1>1, <1>2, <1>3, TrackingStepKeeps, PTL DEF TrackingSpec

-------------------------------------------------------------------------------
(* SegmentBuffers: where an event is on its way.                             *)

\* Where a flush is that a callback waits for: the callback is at its segment.
FlushInv ==
    /\ \A r \in Runs : runs[r].by # 0 =>
        callbacks[runs[r].by].waits /\ callbacks[runs[r].by].at = runs[r].segment
    /\ \A q, r \in Runs : runs[q].by # 0 /\ runs[q].by = runs[r].by => q = r

\* An entry has a window or a callback that will delete it.
EntryInv == \A c \in Contacts : debounced[c] > 0 => c \in windows \/ InFlight(c)

Pending(c) == debounced[c] > 0 /\ c \in windows /\ ~InFlight(c)

Called(c, s) ==
    \E k \in Callbacks :
        /\ callbacks[k].contact = c
        /\ callbacks[k].at < s \/ (callbacks[k].at = s /\ ~callbacks[k].waits)

Buffered(c, s) == c \in Content(s) /\ s \in timers

Flushed(c, s) ==
    \E r \in Runs : runs[r].segment = s /\ c \in runs[r].contacts /\ ~runs[r].evaluated

Lettered(c) == dead[c] = "timed" \/ c \in resent

\* Without the entries that a callback of their contact will delete.
Carried(c, s) ==
    Pending(c) \/ Called(c, s) \/ Buffered(c, s) \/ Flushed(c, s) \/ Lettered(c)

CarriedInv == \A s \in Segments : \A c \in due[s] \ lost[s] : Carried(c, s)

MarksInv ==
    \A s \in Segments :
        /\ s \in processing => \E r \in Runs : runs[r].segment = s
        /\ s \notin overlapped =>
            \A r \in Runs : runs[r].segment = s =>
                s \in processing /\ \A q \in Runs : runs[q].segment = s => q = r

CallbackStates ==
    {NoCallback} \cup [contact : Contacts, direct : BOOLEAN, at : Segments, waits : BOOLEAN]

RunStates ==
    {NoRun} \cup [segment : Segments, contacts : SUBSET Contacts, by : 0 .. MaxCallbacks,
                  evaluated : BOOLEAN]

BufferTypes ==
    /\ debounced \in [Contacts -> Nat] /\ windows \subseteq Contacts
    /\ callbacks \in [Callbacks -> CallbackStates]
    /\ buffers \in [Segments -> Seq(Contacts)] /\ timers \subseteq Segments
    /\ processing \subseteq Segments /\ overlapped \subseteq Segments /\ empty \subseteq Segments
    /\ runs \in [Runs -> RunStates]
    /\ circuit \in {"CLOSED", "OPEN", "HALF_OPEN"} /\ failures \in 0 .. FailureThreshold
    /\ dead \in [Contacts -> {NoContact, "timed", "stranded"}] /\ resent \subseteq Contacts
    /\ due \in [Segments -> SUBSET Contacts] /\ lost \in [Segments -> SUBSET Contacts]
    /\ arrivals \in 0 .. MaxArrivals /\ faults \in 0 .. MaxFaults

BuffersInv == BufferTypes /\ FlushInv /\ EntryInv /\ CarriedInv /\ MarksInv

LEMMA BufferTypesAre == BufferTypeOK <=> BufferTypes
  BY DEF BufferTypeOK, BufferTypes, CallbackStates, RunStates

-------------------------------------------------------------------------------
(* SegmentBuffers: callbacks and flushes.                                    *)

LEMMA CallbackIs ==
    ASSUME BufferTypes, NEW k \in Callbacks
    PROVE  /\ callbacks[k].contact # NoContact => callbacks[k].contact \in Contacts
           /\ callbacks[k].contact \in Contacts =>
                /\ callbacks[k] # NoCallback
                /\ callbacks[k].at \in Segments /\ callbacks[k].waits \in BOOLEAN
                /\ callbacks[k].direct \in BOOLEAN
                /\ callbacks[k] \in [contact : Contacts, direct : BOOLEAN, at : Segments,
                                     waits : BOOLEAN]
           /\ callbacks[k].contact \notin Contacts => callbacks[k] = NoCallback
           /\ callbacks[k].waits => callbacks[k].contact \in Contacts
  <1>1. callbacks[k] \in CallbackStates
    BY DEF BufferTypes
  <1>2. NoCallback.contact \notin Contacts /\ NoCallback.contact = NoContact /\ ~NoCallback.waits
    BY ContactsAssumption DEF NoCallback
  <1>3. CASE callbacks[k] = NoCallback
    BY <1>2, <1>3
  <1>4. CASE callbacks[k] \in [contact : Contacts, direct : BOOLEAN, at : Segments, waits : BOOLEAN]
    BY <1>2, <1>4
  <1>5. QED
    BY <1>1, <1>3, <1>4 DEF CallbackStates

LEMMA RunIs ==
    ASSUME BufferTypes, NEW r \in Runs
    PROVE  /\ runs[r].by \in 0 .. MaxCallbacks
           /\ runs[r].by # 0 => runs[r].by \in Callbacks
           /\ runs[r].segment # 0 =>
                /\ runs[r].segment \in Segments /\ runs[r].contacts \subseteq Contacts
                /\ runs[r] \in [segment : Segments, contacts : SUBSET Contacts,
                                by : 0 .. MaxCallbacks, evaluated : BOOLEAN]
           /\ runs[r].segment = 0 => runs[r] = NoRun
           /\ runs[r].evaluated \/ runs[r].by # 0 => runs[r].segment # 0
           /\ runs[r].evaluated \in BOOLEAN
  <1>1. runs[r] \in RunStates
    BY DEF BufferTypes
  <1>2. NoRun.segment = 0 /\ NoRun.contacts = {} /\ NoRun.by = 0 /\ ~NoRun.evaluated
        /\ NoRun.evaluated \in BOOLEAN /\ 0 \in 0 .. MaxCallbacks /\ 0 \notin Segments
        /\ MaxCallbacks \in Nat
    BY SizesAssumption DEF NoRun, Segments
  <1>3. CASE runs[r] = NoRun
    BY <1>2, <1>3
  <1>4. CASE runs[r] \in [segment : Segments, contacts : SUBSET Contacts, by : 0 .. MaxCallbacks,
                          evaluated : BOOLEAN]
    <2>1. /\ runs[r].segment \in Segments /\ runs[r].contacts \subseteq Contacts
          /\ runs[r].by \in 0 .. MaxCallbacks /\ runs[r].evaluated \in BOOLEAN
      BY <1>4
    <2>2. runs[r].by # 0 => runs[r].by \in Callbacks
      BY <1>2, <2>1 DEF Callbacks
    <2>3. runs[r].segment # 0
      BY <1>2, <2>1
    <2>4. QED
      BY <1>4, <2>1, <2>2, <2>3
  <1>5. QED
    BY <1>1, <1>3, <1>4 DEF RunStates

\* A callback begins.
LEMMA CallsMoves ==
    ASSUME BufferTypes, FlushInv, runs' = runs, NEW c \in Contacts, NEW direct \in BOOLEAN,
           Calls(c, direct)
    PROVE  /\ callbacks' \in [Callbacks -> CallbackStates]
           /\ FlushInv'
           /\ \A e, s : Called(e, s) /\ e \in Contacts => Called(e, s)'
           /\ \A s \in Segments : Called(c, s)'
           /\ \A e \in Contacts : InFlight(e)' <=> InFlight(e) \/ (e = c /\ ~direct)
  <1> DEFINE new == [contact |-> c, direct |-> direct, at |-> 1, waits |-> FALSE]
  <1>1. PICK k \in Callbacks :
            callbacks[k] = NoCallback /\ callbacks' = [callbacks EXCEPT ![k] = new]
    BY DEF Calls
  <1>2. 1 \in Segments
    BY SizesAssumption DEF Segments
  <1>3. new \in CallbackStates
    BY <1>2 DEF CallbackStates
  <1>4. callbacks'[k] = new /\ \A j \in Callbacks \ {k} : callbacks'[j] = callbacks[j]
    BY <1>1 DEF BufferTypes
  <1>5. new.contact = c /\ new.direct = direct /\ new.at = 1 /\ new.waits = FALSE
    OBVIOUS
  <1>6. callbacks' \in [Callbacks -> CallbackStates]
    BY <1>1, <1>3 DEF BufferTypes
  <1> HIDE DEF new
  <1>7. callbacks[k].contact \notin Contacts /\ ~callbacks[k].waits
    BY <1>1, ContactsAssumption DEF NoCallback
  <1>8. FlushInv'
    <2>1. ASSUME NEW r \in Runs, runs[r].by # 0 PROVE callbacks'[runs[r].by] = callbacks[runs[r].by]
      BY <1>4, <1>7, <2>1, RunIs DEF FlushInv
    <2>2. QED
      BY <2>1 DEF FlushInv
  <1>9. ASSUME NEW e \in Contacts, NEW s, Called(e, s) PROVE Called(e, s)'
    BY <1>4, <1>7, <1>9 DEF Called
  <1>10. ASSUME NEW s \in Segments PROVE Called(c, s)'
    <2>1. 1 < s \/ 1 = s
      BY <1>2, SizesAssumption DEF Segments
    <2>2. QED
      BY <1>4, <1>5, <2>1 DEF Called
  <1>11. ASSUME NEW e \in Contacts PROVE InFlight(e)' <=> InFlight(e) \/ (e = c /\ ~direct)
    BY <1>4, <1>5, <1>7 DEF InFlight
  <1>12. QED
    BY <1>6, <1>8, <1>9, <1>10, <1>11

\* An entry goes only by the end of a callback of its contact.
EntriesShrink ==
    \A e \in Contacts :
        /\ InFlight(e)' => InFlight(e)
        /\ \/ debounced'[e] = debounced[e] /\ (InFlight(e) => InFlight(e)')
           \/ debounced'[e] = 0 /\ InFlight(e)

LEMMA EntriesKept ==
    ASSUME EntryInv, windows' = windows, EntriesShrink
    PROVE  EntryInv' /\ \A e \in Contacts : Pending(e) => Pending(e)'
  BY DEF EntryInv, EntriesShrink, Pending

LEMMA EntriesSame ==
    ASSUME debounced' = debounced, callbacks' = callbacks
    PROVE  EntriesShrink
  BY DEF EntriesShrink, InFlight

\* A callback k that does not wait, or no longer, goes on to the next segment.
LEMMA GoesOnMoves ==
    ASSUME BufferTypes, NEW k \in Callbacks, callbacks[k].contact \in Contacts, GoesOn(k)
    PROVE  /\ callbacks' \in [Callbacks -> CallbackStates]
           /\ debounced' \in [Contacts -> Nat]
           /\ \A j \in Callbacks \ {k} : callbacks'[j] = callbacks[j]
           /\ EntriesShrink
           /\ \A e \in Contacts, s \in Segments : Called(e, s) =>
                \/ Called(e, s)'
                \/ e = callbacks[k].contact /\ s = callbacks[k].at /\ ~callbacks[k].waits
  <1> DEFINE me == callbacks[k]
  <1>1. /\ me \in [contact : Contacts, direct : BOOLEAN, at : Segments, waits : BOOLEAN]
        /\ me.at \in Segments /\ me.direct \in BOOLEAN
        /\ callbacks \in [Callbacks -> CallbackStates] /\ debounced \in [Contacts -> Nat]
    BY CallbackIs DEF BufferTypes
  <1>2. NSegments \in Nat /\ \A s \in Segments : s \in Nat /\ s <= NSegments
    BY SizesAssumption DEF Segments
  <1>3. CASE me.at < NSegments
    <2> DEFINE you == [me EXCEPT !.at = me.at + 1, !.waits = FALSE]
    <2>1. callbacks' = [callbacks EXCEPT ![k] = you] /\ debounced' = debounced
      BY <1>1, <1>3 DEF GoesOn
    <2>2. me.at + 1 \in Segments
      BY <1>1, <1>2, <1>3 DEF Segments
    <2>3. you \in CallbackStates /\ you.contact = me.contact /\ you.direct = me.direct
          /\ you.at = me.at + 1 /\ you.waits = FALSE
      BY <1>1, <2>2 DEF CallbackStates
    <2> HIDE DEF you
    <2>4. callbacks'[k] = you /\ \A j \in Callbacks \ {k} : callbacks'[j] = callbacks[j]
      BY <1>1, <2>1
    <2>5. callbacks' \in [Callbacks -> CallbackStates]
      BY <1>1, <2>1, <2>3
    <2>6. EntriesShrink
      BY <2>1, <2>3, <2>4 DEF EntriesShrink, InFlight
    <2>7. ASSUME NEW e \in Contacts, NEW s \in Segments, Called(e, s)
          PROVE  Called(e, s)' \/ (e = me.contact /\ s = me.at /\ ~me.waits)
      <3>1. PICK j \in Callbacks : callbacks[j].contact = e
                /\ (callbacks[j].at < s \/ (callbacks[j].at = s /\ ~callbacks[j].waits))
        BY <2>7 DEF Called
      <3>2. CASE j # k
        BY <2>4, <3>1, <3>2 DEF Called
      <3>3. CASE j = k
        <4>1. me.at < s \/ (s = me.at /\ ~me.waits)
          BY <3>1, <3>3
        <4>2. me.at < s => me.at + 1 < s \/ me.at + 1 = s
          BY <1>1, <1>2
        <4>3. QED
          BY <2>3, <2>4, <3>1, <3>3, <4>1, <4>2 DEF Called
      <3>4. QED
        BY <3>2, <3>3
    <2>8. QED
      BY <1>1, <2>1, <2>4, <2>5, <2>6, <2>7
  <1>4. CASE ~(me.at < NSegments)
    <2>1. /\ callbacks' = [callbacks EXCEPT ![k] = NoCallback]
          /\ debounced' = IF me.direct THEN debounced ELSE [debounced EXCEPT ![me.contact] = 0]
      BY <1>4 DEF GoesOn
    <2>2. callbacks'[k] = NoCallback /\ \A j \in Callbacks \ {k} : callbacks'[j] = callbacks[j]
      BY <1>1, <2>1
    <2>3. callbacks' \in [Callbacks -> CallbackStates] /\ debounced' \in [Contacts -> Nat]
      BY <1>1, <2>1 DEF CallbackStates
    <2>4. EntriesShrink
      BY <1>1, <2>1, <2>2, ContactsAssumption DEF EntriesShrink, InFlight, NoCallback
    <2>5. ASSUME NEW e \in Contacts, NEW s \in Segments, Called(e, s)
          PROVE  Called(e, s)' \/ (e = me.contact /\ s = me.at /\ ~me.waits)
      <3>1. PICK j \in Callbacks : callbacks[j].contact = e
                /\ (callbacks[j].at < s \/ (callbacks[j].at = s /\ ~callbacks[j].waits))
        BY <2>5 DEF Called
      <3>2. CASE j # k
        BY <2>2, <3>1, <3>2 DEF Called
      <3>3. CASE j = k
        <4>1. ~(me.at < s)
          BY <1>1, <1>2, <1>4
        <4>2. QED
          BY <3>1, <3>3, <4>1
      <3>4. QED
        BY <3>2, <3>3
    <2>6. QED
      BY <2>2, <2>3, <2>4, <2>5
  <1>5. QED
    BY <1>3, <1>4

\* Which flush it is that begins.
LEMMA BeginsRuns ==
    ASSUME BufferTypes, NEW s, NEW content, NEW by, Begins(s, content, by)
    PROVE  \/ s \in processing /\ runs' = runs
           \/ s \notin processing /\ \E r \in Runs :
                 /\ runs[r] = NoRun
                 /\ runs'[r].by = by /\ runs'[r].segment = s
                 /\ \A q \in Runs \ {r} : runs'[q] = runs[q]
  <1>1. CASE s \in processing
    BY <1>1 DEF Begins
  <1>2. CASE s \notin processing
    <2>1. PICK r \in Runs :
            /\ runs[r] = NoRun
            /\ runs' = [runs EXCEPT ![r] = [segment |-> s, contacts |-> content, by |-> by,
                                            evaluated |-> FALSE]]
      BY <1>2 DEF Begins
    <2>2. QED
      BY <1>2, <2>1 DEF BufferTypes
  <1>3. QED
    BY <1>1, <1>2

\* A flush begins, or drops what it was to flush.
LEMMA BeginsMoves ==
    ASSUME BufferTypes, MarksInv, NEW s \in Segments, NEW content \in SUBSET Contacts,
           NEW by \in 0 .. MaxCallbacks, Begins(s, content, by)
    PROVE  /\ buffers' \in [Segments -> Seq(Contacts)] /\ timers' \subseteq Segments
           /\ processing' \subseteq Segments /\ overlapped' \subseteq Segments
           /\ runs' \in [Runs -> RunStates] /\ lost' \in [Segments -> SUBSET Contacts]
           /\ MarksInv'
           /\ \A e \in Contacts, i \in Segments :
                Buffered(e, i) => Buffered(e, i)' \/ (i = s /\ e \in Content(s))
           /\ \A e \in Contacts, i \in Segments : Flushed(e, i) => Flushed(e, i)'
           /\ \A e \in content : e \in lost'[s] \/ Flushed(e, s)'
           /\ \A i \in Segments : lost[i] \subseteq lost'[i]
  <1>1. /\ buffers \in [Segments -> Seq(Contacts)] /\ timers \subseteq Segments
        /\ runs \in [Runs -> RunStates] /\ lost \in [Segments -> SUBSET Contacts]
        /\ processing \subseteq Segments /\ overlapped \subseteq Segments
    BY DEF BufferTypes
  <1>2. /\ buffers' = [buffers EXCEPT ![s] = << >>] /\ timers' = timers \ {s}
    BY DEF Begins
  <1>3. buffers' \in [Segments -> Seq(Contacts)] /\ timers' \subseteq Segments
    BY <1>1, <1>2
  <1>4. \A e \in Contacts, i \in Segments :
            Buffered(e, i) => Buffered(e, i)' \/ (i = s /\ e \in Content(s))
    BY <1>1, <1>2 DEF Buffered, Content
  <1>5. CASE s \in processing
    <2>1. /\ lost' = [lost EXCEPT ![s] = @ \cup content] /\ overlapped' = overlapped \cup {s}
          /\ processing' = processing \ {s} /\ runs' = runs
      BY <1>5 DEF Begins
    <2>2. lost' \in [Segments -> SUBSET Contacts] /\ content \subseteq lost'[s]
          /\ \A i \in Segments : lost[i] \subseteq lost'[i]
      BY <1>1, <2>1
    <2>3. MarksInv'
      BY <2>1 DEF MarksInv
    <2>4. \A e \in Contacts, i \in Segments : Flushed(e, i) => Flushed(e, i)'
      BY <2>1 DEF Flushed
    <2>5. QED
      BY <1>1, <1>3, <1>4, <1>5, <2>1, <2>2, <2>3, <2>4
  <1>6. CASE s \notin processing
    <2> DEFINE new == [segment |-> s, contacts |-> content, by |-> by, evaluated |-> FALSE]
    <2>1. /\ processing' = processing \cup {s} /\ lost' = lost /\ overlapped' = overlapped
      BY <1>6 DEF Begins
    <2>2. PICK r \in Runs : runs[r] = NoRun /\ runs' = [runs EXCEPT ![r] = new]
      BY <1>6 DEF Begins
    <2>3. /\ new \in RunStates /\ new.segment = s /\ new.contacts = content /\ new.by = by
          /\ ~new.evaluated
      BY DEF RunStates
    <2> HIDE DEF new
    <2>4. /\ runs' \in [Runs -> RunStates] /\ runs'[r] = new
          /\ \A q \in Runs \ {r} : runs'[q] = runs[q]
      BY <1>1, <2>2, <2>3
    <2>5. runs[r].segment = 0 /\ runs[r].contacts = {} /\ 0 \notin Segments
      BY <2>2, SizesAssumption DEF NoRun, Segments
    <2>6. \A e \in Contacts, i \in Segments : Flushed(e, i) => Flushed(e, i)'
      BY <2>4, <2>5 DEF Flushed
    <2>7. \A e \in content : Flushed(e, s)'
      BY <2>3, <2>4 DEF Flushed
    <2>8. MarksInv'
      <3>1. ASSUME NEW i \in Segments, i # s
            PROVE  \A q \in Runs : runs'[q].segment = i <=> runs[q].segment = i
        BY <2>3, <2>4, <2>5, <3>1
      <3>2. ASSUME s \notin overlapped, NEW q \in Runs, runs'[q].segment = s
            PROVE  q = r
        BY <1>6, <2>4, <3>2 DEF MarksInv
      <3>3. runs'[r].segment = s
        BY <2>3, <2>4
      <3>4. ASSUME NEW i \in Segments
            PROVE  /\ i \in processing' => \E q \in Runs : runs'[q].segment = i
                   /\ i \notin overlapped' =>
                        \A p \in Runs : runs'[p].segment = i =>
                            i \in processing' /\ \A q \in Runs : runs'[q].segment = i => q = p
        <4>1. CASE i = s
          BY <2>1, <3>2, <3>3, <4>1
        <4>2. CASE i # s
          BY <2>1, <3>1, <4>2 DEF MarksInv
        <4>3. QED
          BY <4>1, <4>2
      <3>5. QED
        BY <3>4 DEF MarksInv
    <2>9. QED
      BY <1>1, <1>3, <1>4, <1>6, <2>1, <2>2, <2>3, <2>4, <2>6, <2>7, <2>8
  <1>7. QED
    BY <1>5, <1>6

\* A flush ends and deletes the mark of its segment.
LEMMA EndsMoves ==
    ASSUME BufferTypes, MarksInv, NEW r \in Runs, runs[r].segment # 0, Ends(r)
    PROVE  /\ runs' \in [Runs -> RunStates] /\ runs'[r] = NoRun
           /\ \A q \in Runs \ {r} : runs'[q] = runs[q]
           /\ processing' \subseteq Segments /\ overlapped' \subseteq Segments
           /\ MarksInv'
  <1> DEFINE s == runs[r].segment
  <1>1. s \in Segments /\ runs \in [Runs -> RunStates] /\ 0 \notin Segments
    <2>1. 0 \notin Segments
      BY SizesAssumption DEF Segments
    <2>2. QED
      BY <2>1, RunIs DEF BufferTypes
  <1>2. /\ runs' = [runs EXCEPT ![r] = NoRun] /\ processing' = processing \ {s}
        /\ overlapped' = IF \E q \in Runs \ {r} : runs[q].segment = s THEN overlapped
                         ELSE overlapped \ {s}
    BY DEF Ends
  <1> HIDE DEF s
  <1>3. /\ runs' \in [Runs -> RunStates] /\ runs'[r] = NoRun
        /\ \A q \in Runs \ {r} : runs'[q] = runs[q]
    BY <1>1, <1>2 DEF RunStates
  <1>4. processing' \subseteq Segments /\ overlapped' \subseteq Segments
    BY <1>2 DEF BufferTypes
  <1>5. runs'[r].segment = 0
    BY <1>3 DEF NoRun
  <1>6. ASSUME NEW i \in Segments
        PROVE  /\ i \in processing' => \E q \in Runs : runs'[q].segment = i
               /\ i \notin overlapped' =>
                    \A p \in Runs : runs'[p].segment = i =>
                        i \in processing' /\ \A q \in Runs : runs'[q].segment = i => q = p
    <2>1. CASE i = s
      <3>1. i \notin processing'
        BY <1>2, <2>1
      <3>2. ASSUME i \notin overlapped', NEW p \in Runs, runs'[p].segment = i
            PROVE  FALSE
        <4>1. p # r /\ runs[p].segment = s
          BY <1>1, <1>3, <1>5, <2>1, <3>2
        <4>2. overlapped' = overlapped
          BY <1>2, <4>1
        <4>3. runs[r].segment = i
          BY <2>1 DEF s
        <4>4. QED
          BY <2>1, <3>2, <4>1, <4>2, <4>3 DEF MarksInv
      <3>3. QED
        BY <3>1, <3>2
    <2>2. CASE i # s
      <3>1. \A q \in Runs : runs'[q].segment = i <=> runs[q].segment = i
        BY <1>1, <1>3, <1>5, <2>2 DEF s
      <3>2. (i \in processing' <=> i \in processing) /\ (i \in overlapped' <=> i \in overlapped)
        BY <1>2, <2>2
      <3>3. QED
        BY <3>1, <3>2 DEF MarksInv
    <2>3. QED
      BY <2>1, <2>2
  <1>7. MarksInv'
    BY <1>6 DEF MarksInv
  <1>8. QED
    BY <1>3, <1>4, <1>7

\* What a callback has buffered are contacts.
LEMMA ContentIs ==
    ASSUME BufferTypes, NEW s \in Segments
    PROVE  Content(s) \subseteq Contacts
  <1>1. buffers[s] \in Seq(Contacts)
    BY DEF BufferTypes
  <1>2. QED
    BY <1>1 DEF Content

\* One that counts as a failure of the circuit, or as a success.
LEMMA CircuitMoves ==
    ASSUME BufferTypes
    PROVE  /\ \A n \in Nat : Fails(n) => circuit' \in {"CLOSED", "OPEN", "HALF_OPEN"}
                                         /\ failures' \in 0 .. FailureThreshold
           /\ Succeeds => circuit' \in {"CLOSED", "OPEN", "HALF_OPEN"}
                          /\ failures' \in 0 .. FailureThreshold
           /\ Fault => faults' \in 0 .. MaxFaults
  <1>1. circuit \in {"CLOSED", "OPEN", "HALF_OPEN"} /\ failures \in 0 .. FailureThreshold
        /\ FailureThreshold \in Nat /\ MaxFaults \in Nat /\ faults \in 0 .. MaxFaults
    BY SizesAssumption DEF BufferTypes
  <1>2. ASSUME NEW n \in Nat, Fails(n)
        PROVE  circuit' \in {"CLOSED", "OPEN", "HALF_OPEN"} /\ failures' \in 0 .. FailureThreshold
    BY <1>1, <1>2 DEF Fails
  <1>3. Succeeds => circuit' \in {"CLOSED", "OPEN", "HALF_OPEN"}
                    /\ failures' \in 0 .. FailureThreshold
    BY <1>1 DEF Succeeds, breaker
  <1>4. Fault => faults' \in 0 .. MaxFaults
    BY <1>1 DEF Fault
  <1>5. QED
    BY <1>2, <1>3, <1>4

-------------------------------------------------------------------------------
(* SegmentBuffers: what steps leave alone.                                   *)

LEMMA DebouncerIdle ==
    ASSUME EntryInv, debounced' = debounced, windows' = windows, callbacks' = callbacks
    PROVE  /\ EntryInv'
           /\ \A e \in Contacts : Pending(e) => Pending(e)'
           /\ \A e \in Contacts, s \in Segments : Called(e, s) => Called(e, s)'
  <1>1. EntryInv' /\ \A e \in Contacts : Pending(e) => Pending(e)'
    BY EntriesSame, EntriesKept
  <1>2. \A e \in Contacts, s \in Segments : Called(e, s) => Called(e, s)'
    BY DEF Called
  <1>3. QED
    BY <1>1, <1>2

LEMMA BuffersIdle ==
    ASSUME buffers' = buffers, timers' = timers
    PROVE  \A e \in Contacts, s \in Segments : Buffered(e, s) => Buffered(e, s)'
  BY DEF Buffered, Content

LEMMA FlushesIdle ==
    ASSUME runs' = runs, processing' = processing, overlapped' = overlapped
    PROVE  /\ MarksInv => MarksInv'
           /\ \A e \in Contacts, s \in Segments : Flushed(e, s) => Flushed(e, s)'
  BY DEF MarksInv, Flushed

LEMMA LettersIdle ==
    ASSUME dead' = dead, resent' = resent
    PROVE  \A e \in Contacts : Lettered(e) => Lettered(e)'
  BY DEF Lettered

LEMMA FlushWaitIdle == ASSUME FlushInv, runs' = runs, callbacks' = callbacks PROVE FlushInv'
  BY DEF FlushInv

LEMMA CarriedHolds ==
    ASSUME \A s \in Segments : \A c \in due'[s] \ lost'[s] : Carried(c, s)'
    PROVE  CarriedInv'
  BY DEF CarriedInv, Carried, Pending, InFlight, Called, Buffered, Content, Flushed, Lettered

\* Nothing leaves its place.
LEMMA AllCarried ==
    ASSUME BufferTypes, CarriedInv,
           \A e \in Contacts : Pending(e) => Pending(e)',
           \A e \in Contacts, s \in Segments : Called(e, s) => Called(e, s)',
           \A e \in Contacts, s \in Segments : Buffered(e, s) => Buffered(e, s)',
           \A e \in Contacts, s \in Segments : Flushed(e, s) => Flushed(e, s)',
           NEW c \in Contacts, NEW s \in Segments, c \in due[s] \ lost[s],
           Lettered(c) => Lettered(c)'
    PROVE  Carried(c, s)'
  BY DEF CarriedInv, Carried

LEMMA DueAre ==
    ASSUME BufferTypes, NEW s \in Segments
    PROVE  due[s] \subseteq Contacts /\ lost[s] \subseteq Contacts
  BY DEF BufferTypes

LEMMA EverywhereIs ==
    ASSUME NEW f \in [Segments -> SUBSET Contacts], NEW c \in Contacts
    PROVE  /\ Everywhere(f, c) \in [Segments -> SUBSET Contacts]
           /\ \A s \in Segments : Everywhere(f, c)[s] = f[s] \cup {c}
  BY DEF Everywhere

LEMMA ComesMoves ==
    ASSUME BufferTypes, NEW c \in Contacts, Comes(c)
    PROVE  /\ arrivals' \in 0 .. MaxArrivals /\ resent' \subseteq Contacts
           /\ \A e \in Contacts \ {c} : e \in resent => e \in resent'
           /\ arrivals' = arrivals \/ resent' = resent
  <1>1. arrivals \in 0 .. MaxArrivals /\ MaxArrivals \in Nat /\ resent \subseteq Contacts
    BY SizesAssumption DEF BufferTypes
  <1>2. QED
    BY <1>1 DEF Comes

-------------------------------------------------------------------------------
(* SegmentBuffers: events arrive.                                            *)

LEMMA RefuseKeeps ==
    ASSUME BuffersInv, NEW c \in Contacts, Refuse(c)
    PROVE  BuffersInv'
  <1>1. BufferTypes /\ FlushInv /\ EntryInv /\ CarriedInv /\ MarksInv
    BY DEF BuffersInv
  <1>2. /\ debounced' = debounced /\ windows' = windows /\ callbacks' = callbacks
        /\ buffers' = buffers /\ timers' = timers /\ processing' = processing
        /\ runs' = runs /\ empty' = empty /\ dead' = dead /\ due' = due
        /\ overlapped' = overlapped /\ faults' = faults
        /\ lost' = IF arrivals' = arrivals THEN Everywhere(lost, c) ELSE lost
    BY DEF Refuse, debouncer
  <1>3. /\ arrivals' \in 0 .. MaxArrivals /\ resent' \subseteq Contacts
        /\ \A e \in Contacts \ {c} : e \in resent => e \in resent'
        /\ arrivals' = arrivals \/ resent' = resent
    BY <1>1, ComesMoves DEF Refuse
  <1>4. lost \in [Segments -> SUBSET Contacts]
    BY <1>1 DEF BufferTypes
  <1>5. /\ lost' \in [Segments -> SUBSET Contacts] /\ \A s \in Segments : lost[s] \subseteq lost'[s]
        /\ arrivals' = arrivals => \A s \in Segments : c \in lost'[s]
    BY <1>2, <1>4, EverywhereIs
  <1>6. circuit' \in {"CLOSED", "OPEN", "HALF_OPEN"} /\ failures' \in 0 .. FailureThreshold
    BY <1>1, CircuitMoves DEF Refuse, breaker, BufferTypes
  <1>7. BufferTypes'
    BY <1>1, <1>2, <1>3, <1>5, <1>6 DEF BufferTypes
  <1>8. ASSUME NEW s \in Segments, NEW e \in due'[s] \ lost'[s]
        PROVE  Carried(e, s)'
    <2>1. e \in Contacts /\ e \in due[s] \ lost[s]
      BY <1>1, <1>2, <1>5, DueAre
    <2>2. e # c \/ resent' = resent
      BY <1>3, <1>5
    <2>3. Lettered(e) => Lettered(e)'
      BY <1>2, <1>3, <2>1, <2>2 DEF Lettered
    <2>4. QED
      BY <1>1, <1>2, <2>1, <2>3, DebouncerIdle, BuffersIdle, FlushesIdle, AllCarried
  <1>9. QED
    BY <1>1, <1>2, <1>7, <1>8, CarriedHolds, DebouncerIdle, FlushesIdle, FlushWaitIdle
       DEF BuffersInv

\* An event joins an entry, makes one, or takes it to its callback.
LEMMA DebounceMoves ==
    ASSUME BufferTypes, FlushInv, EntryInv, runs' = runs, NEW c \in Contacts, Debounce(c)
    PROVE  /\ debounced' \in [Contacts -> Nat] /\ windows' \subseteq Contacts
           /\ callbacks' \in [Callbacks -> CallbackStates]
           /\ lost' \in [Segments -> SUBSET Contacts] /\ FlushInv' /\ EntryInv'
           /\ \A e, s : Called(e, s) /\ e \in Contacts => Called(e, s)'
           /\ \A e \in Contacts \ {c} : Pending(e) => Pending(e)'
           /\ \A s \in Segments : lost[s] \subseteq lost'[s]
           /\ \A s \in Segments : c \in lost'[s] \/ Pending(c)' \/ Called(c, s)'
  <1>1. /\ debounced \in [Contacts -> Nat] /\ windows \subseteq Contacts
        /\ lost \in [Segments -> SUBSET Contacts] /\ callbacks \in [Callbacks -> CallbackStates]
    BY DEF BufferTypes
  <1>2. /\ debounced' = [debounced EXCEPT ![c] = @ + 1]
        /\ lost' = IF InFlight(c) THEN Everywhere(lost, c) ELSE lost
    BY DEF Debounce
  <1>3. /\ debounced' \in [Contacts -> Nat] /\ debounced'[c] > 0
        /\ \A e \in Contacts \ {c} : debounced'[e] = debounced[e]
    BY <1>1, <1>2
  <1>4. /\ lost' \in [Segments -> SUBSET Contacts] /\ \A s \in Segments : lost[s] \subseteq lost'[s]
        /\ InFlight(c) => \A s \in Segments : c \in lost'[s]
    BY <1>1, <1>2, EverywhereIs
  <1>5. CASE callbacks' = callbacks /\ windows' \in {windows, windows \cup {c}}
             /\ (debounced[c] = 0 => c \in windows')
    <2>1. windows' \subseteq Contacts /\ windows \subseteq windows'
          /\ \A e \in Contacts \ {c} : e \in windows' <=> e \in windows
      BY <1>1, <1>5
    <2>2. \A e \in Contacts : InFlight(e)' <=> InFlight(e)
      BY <1>5 DEF InFlight
    <2>3. c \in windows' \/ InFlight(c)
      <3>1. debounced[c] = 0 \/ debounced[c] > 0
        BY <1>1
      <3>2. QED
        BY <1>5, <2>1, <3>1 DEF EntryInv
    <2>4. EntryInv'
      BY <1>3, <2>1, <2>2, <2>3 DEF EntryInv
    <2>5. \A e \in Contacts \ {c} : Pending(e) => Pending(e)'
      BY <1>3, <2>1, <2>2 DEF Pending
    <2>6. InFlight(c) \/ Pending(c)'
      BY <1>3, <2>2, <2>3 DEF Pending
    <2>7. \A e, s : Called(e, s) /\ e \in Contacts => Called(e, s)'
      BY <1>5 DEF Called
    <2>8. FlushInv'
      BY <1>5, FlushWaitIdle
    <2>9. QED
      BY <1>1, <1>3, <1>4, <1>5, <2>1, <2>4, <2>5, <2>6, <2>7, <2>8
  <1>6. CASE windows' = windows \ {c} /\ Calls(c, FALSE)
    <2>1. /\ callbacks' \in [Callbacks -> CallbackStates] /\ FlushInv'
          /\ \A e, s : Called(e, s) /\ e \in Contacts => Called(e, s)'
          /\ \A s \in Segments : Called(c, s)'
          /\ \A e \in Contacts : InFlight(e)' <=> InFlight(e) \/ e = c
      BY <1>6, CallsMoves
    <2>2. EntryInv'
      BY <1>3, <1>6, <2>1 DEF EntryInv
    <2>3. \A e \in Contacts \ {c} : Pending(e) => Pending(e)'
      BY <1>3, <1>6, <2>1 DEF Pending
    <2>4. QED
      BY <1>1, <1>3, <1>4, <1>6, <2>1, <2>2, <2>3
  <1>7. QED
    BY <1>5, <1>6 DEF Debounce

LEMMA AcceptKeeps ==
    ASSUME BuffersInv, NEW c \in Contacts, Accept(c)
    PROVE  BuffersInv'
  <1>1. BufferTypes /\ FlushInv /\ EntryInv /\ CarriedInv /\ MarksInv
    BY DEF BuffersInv
  <1>2. /\ buffers' = buffers /\ timers' = timers /\ processing' = processing
        /\ runs' = runs /\ empty' = empty /\ overlapped' = overlapped
        /\ due' = Everywhere(due, c)
    BY DEF Accept
  <1>3. /\ arrivals' \in 0 .. MaxArrivals /\ resent' \subseteq Contacts
        /\ \A e \in Contacts \ {c} : e \in resent => e \in resent'
    BY <1>1, ComesMoves DEF Accept
  <1>4. due \in [Segments -> SUBSET Contacts]
    BY <1>1 DEF BufferTypes
  <1>5. /\ due' \in [Segments -> SUBSET Contacts]
        /\ \A s \in Segments : due'[s] = due[s] \cup {c}
    BY <1>2, <1>4, EverywhereIs
  <1>6. /\ debounced' \in [Contacts -> Nat] /\ windows' \subseteq Contacts
        /\ callbacks' \in [Callbacks -> CallbackStates] /\ lost' \in [Segments -> SUBSET Contacts]
        /\ FlushInv' /\ EntryInv'
        /\ \A e \in Contacts, s \in Segments : Called(e, s) => Called(e, s)'
        /\ \A e \in Contacts \ {c} : Pending(e) => Pending(e)'
        /\ \A s \in Segments : lost[s] \subseteq lost'[s]
        /\ \A s \in Segments : c \in lost'[s] \/ Pending(c)' \/ Called(c, s)' \/ Lettered(c)'
        /\ \A e \in Contacts \ {c} : Lettered(e) => Lettered(e)'
        /\ dead' \in [Contacts -> {NoContact, "timed", "stranded"}] /\ faults' \in 0 .. MaxFaults
        /\ circuit' \in {"CLOSED", "OPEN", "HALF_OPEN"} /\ failures' \in 0 .. FailureThreshold
    <2>1. CASE /\ Debounce(c)
               /\ circuit' = IF circuit = "OPEN" THEN "HALF_OPEN" ELSE circuit
               /\ UNCHANGED <<failures, dead, faults>>
      <3>1. \A e \in Contacts \ {c} : Lettered(e) => Lettered(e)'
        BY <1>3, <2>1 DEF Lettered
      <3>2. /\ dead' \in [Contacts -> {NoContact, "timed", "stranded"}]
            /\ faults' \in 0 .. MaxFaults
            /\ circuit' \in {"CLOSED", "OPEN", "HALF_OPEN"} /\ failures' \in 0 .. FailureThreshold
        BY <1>1, <2>1 DEF BufferTypes
      <3>3. QED
        BY <1>1, <1>2, <2>1, <3>1, <3>2, DebounceMoves
    <2>2. CASE /\ Calls(c, TRUE) /\ UNCHANGED <<debouncer, lost>>
               /\ circuit' = IF circuit = "OPEN" THEN "HALF_OPEN" ELSE circuit
               /\ UNCHANGED <<failures, dead, faults>>
      <3>1. \A e \in Contacts \ {c} : Lettered(e) => Lettered(e)'
        BY <1>3, <2>2 DEF Lettered
      <3>2. /\ dead' \in [Contacts -> {NoContact, "timed", "stranded"}]
            /\ faults' \in 0 .. MaxFaults
            /\ circuit' \in {"CLOSED", "OPEN", "HALF_OPEN"} /\ failures' \in 0 .. FailureThreshold
        BY <1>1, <2>2 DEF BufferTypes
      <3>3. debounced' = debounced /\ windows' = windows /\ lost' = lost
        BY <2>2 DEF debouncer
      <3>4. /\ callbacks' \in [Callbacks -> CallbackStates] /\ FlushInv'
            /\ \A e, s : Called(e, s) /\ e \in Contacts => Called(e, s)'
            /\ \A s \in Segments : Called(c, s)'
            /\ \A e \in Contacts : InFlight(e)' <=> InFlight(e)
        BY <1>1, <1>2, <2>2, CallsMoves
      <3>5. EntryInv' /\ \A e \in Contacts : Pending(e) => Pending(e)'
        BY <1>1, <3>3, <3>4 DEF EntryInv, Pending
      <3>6. QED
        BY <1>1, <3>1, <3>2, <3>3, <3>4, <3>5 DEF BufferTypes
    <2>3. CASE Fault /\ Fails(1) /\ dead' = Letters({c}) /\ UNCHANGED <<debouncer, callbacks, lost>>
      <3>1. debounced' = debounced /\ windows' = windows /\ callbacks' = callbacks /\ lost' = lost
        BY <2>3 DEF debouncer
      <3>2. /\ dead' \in [Contacts -> {NoContact, "timed", "stranded"}] /\ dead'[c] = "timed"
            /\ \A e \in Contacts \ {c} : dead'[e] = dead[e]
        BY <1>1, <2>3 DEF Letters, BufferTypes
      <3>3. Lettered(c)' /\ \A e \in Contacts \ {c} : Lettered(e) => Lettered(e)'
        BY <1>3, <3>2 DEF Lettered
      <3>4. /\ faults' \in 0 .. MaxFaults
            /\ circuit' \in {"CLOSED", "OPEN", "HALF_OPEN"} /\ failures' \in 0 .. FailureThreshold
        BY <1>1, <2>3, CircuitMoves
      <3>5. QED
        BY <1>1, <1>2, <3>1, <3>2, <3>3, <3>4, DebouncerIdle, FlushWaitIdle DEF BufferTypes
    <2>4. QED
      BY <2>1, <2>2, <2>3 DEF Accept
  <1>7. BufferTypes'
    BY <1>1, <1>2, <1>3, <1>5, <1>6 DEF BufferTypes
  <1>8. ASSUME NEW s \in Segments, NEW e \in due'[s] \ lost'[s]
        PROVE  Carried(e, s)'
    <2>1. CASE e = c
      BY <1>6, <2>1 DEF Carried
    <2>2. CASE e # c
      <3>1. e \in Contacts /\ e \in due[s] \ lost[s]
        BY <1>1, <1>5, <1>6, <2>2, DueAre
      <3>2. Carried(e, s)
        BY <1>1, <3>1 DEF CarriedInv
      <3>3. (Buffered(e, s) => Buffered(e, s)') /\ (Flushed(e, s) => Flushed(e, s)')
        BY <1>2, <3>1, BuffersIdle, FlushesIdle
      <3>4. QED
        BY <1>6, <2>2, <3>1, <3>2, <3>3 DEF Carried
    <2>3. QED
      BY <2>1, <2>2
  <1>9. QED
    BY <1>1, <1>2, <1>6, <1>7, <1>8, CarriedHolds, FlushesIdle DEF BuffersInv

LEMMA WindowEndsKeeps ==
    ASSUME BuffersInv, NEW c \in Contacts, WindowEnds(c)
    PROVE  BuffersInv'
  <1>1. BufferTypes /\ FlushInv /\ EntryInv /\ CarriedInv /\ MarksInv
    BY DEF BuffersInv
  <1>2. /\ debounced' = debounced /\ windows' = windows \ {c}
        /\ buffers' = buffers /\ timers' = timers /\ processing' = processing
        /\ runs' = runs /\ empty' = empty /\ dead' = dead /\ resent' = resent /\ due' = due
        /\ circuit' = circuit /\ failures' = failures /\ lost' = lost
        /\ overlapped' = overlapped /\ arrivals' = arrivals /\ faults' = faults
    BY DEF WindowEnds, breaker, letters, budgets
  <1>3. debounced[c] \in Nat
    BY <1>1 DEF BufferTypes
  <1>4. /\ callbacks' \in [Callbacks -> CallbackStates] /\ FlushInv' /\ EntryInv'
        /\ \A e \in Contacts, s \in Segments : Called(e, s) => Called(e, s)'
        /\ \A e \in Contacts, s \in Segments : Pending(e) => Pending(e)' \/ Called(e, s)'
    <2>1. CASE debounced[c] = 0 /\ callbacks' = callbacks
      <3>1. \A e \in Contacts : InFlight(e)' <=> InFlight(e)
        BY <2>1 DEF InFlight
      <3>2. EntryInv' /\ \A e \in Contacts : Pending(e) => Pending(e)'
        BY <1>1, <1>2, <2>1, <3>1 DEF EntryInv, Pending
      <3>3. \A e \in Contacts, s \in Segments : Called(e, s) => Called(e, s)'
        BY <2>1 DEF Called
      <3>4. QED
        BY <1>1, <1>2, <2>1, <3>2, <3>3, FlushWaitIdle DEF BufferTypes
    <2>2. CASE debounced[c] # 0 /\ Calls(c, FALSE)
      <3>1. /\ callbacks' \in [Callbacks -> CallbackStates] /\ FlushInv'
            /\ \A e, s : Called(e, s) /\ e \in Contacts => Called(e, s)'
            /\ \A s \in Segments : Called(c, s)'
            /\ \A e \in Contacts : InFlight(e)' <=> InFlight(e) \/ e = c
        BY <1>1, <1>2, <2>2, CallsMoves
      <3>2. EntryInv' /\ \A e \in Contacts \ {c} : Pending(e) => Pending(e)'
        BY <1>1, <1>2, <3>1 DEF EntryInv, Pending
      <3>3. QED
        BY <3>1, <3>2
    <2>3. QED
      BY <2>1, <2>2 DEF WindowEnds
  <1>5. BufferTypes'
    BY <1>1, <1>2, <1>4 DEF BufferTypes
  <1>6. ASSUME NEW s \in Segments, NEW e \in due'[s] \ lost'[s]
        PROVE  Carried(e, s)'
    <2>1. e \in Contacts /\ Carried(e, s)
      BY <1>1, <1>2, DueAre DEF CarriedInv
    <2>2. (Buffered(e, s) => Buffered(e, s)') /\ (Flushed(e, s) => Flushed(e, s)')
          /\ (Lettered(e) => Lettered(e)')
      BY <1>2, <2>1, BuffersIdle, FlushesIdle, LettersIdle
    <2>3. QED
      BY <1>4, <2>1, <2>2 DEF Carried
  <1>7. QED
    BY <1>1, <1>2, <1>4, <1>5, <1>6, CarriedHolds, FlushesIdle DEF BuffersInv

-------------------------------------------------------------------------------
(* SegmentBuffers: buffers and flushes.                                      *)

LEMMA NobodyWaits ==
    ASSUME BufferTypes, FlushInv, runs' = runs, NEW k \in Callbacks, ~callbacks[k].waits,
           \A j \in Callbacks \ {k} : callbacks'[j] = callbacks[j]
    PROVE  FlushInv'
  <1>1. ASSUME NEW r \in Runs, runs[r].by # 0 PROVE callbacks'[runs[r].by] = callbacks[runs[r].by]
    BY <1>1, RunIs DEF FlushInv
  <1>2. QED
    BY <1>1 DEF FlushInv

LEMMA PutKeeps ==
    ASSUME BuffersInv, NEW k \in Callbacks, PutEvent(k)
    PROVE  BuffersInv'
  <1>1. BufferTypes /\ FlushInv /\ EntryInv /\ CarriedInv /\ MarksInv
    BY DEF BuffersInv
  <1>3. PICK c \in Contacts, i \in Segments : c = callbacks[k].contact /\ i = callbacks[k].at
    BY <1>1, CallbackIs DEF PutEvent
  <1>2. /\ ~callbacks[k].waits /\ GoesOn(k)
        /\ buffers' = [buffers EXCEPT ![i] = Append(buffers[i], c)] /\ timers' = timers \cup {i}
        /\ windows' = windows /\ processing' = processing
        /\ runs' = runs /\ empty' = empty /\ dead' = dead /\ resent' = resent /\ due' = due
        /\ circuit' = circuit /\ failures' = failures /\ lost' = lost
        /\ overlapped' = overlapped /\ arrivals' = arrivals /\ faults' = faults
    BY <1>3 DEF PutEvent, breaker, letters, budgets
  <1>4. /\ callbacks' \in [Callbacks -> CallbackStates] /\ debounced' \in [Contacts -> Nat]
        /\ \A j \in Callbacks \ {k} : callbacks'[j] = callbacks[j]
        /\ EntriesShrink
        /\ \A e \in Contacts, s \in Segments : Called(e, s) => Called(e, s)' \/ (e = c /\ s = i)
    BY <1>1, <1>2, <1>3, GoesOnMoves
  <1>5. /\ buffers' \in [Segments -> Seq(Contacts)]
        /\ \A e \in Contacts, s \in Segments : Buffered(e, s) => Buffered(e, s)'
        /\ Buffered(c, i)'
    <2>1. buffers \in [Segments -> Seq(Contacts)] /\ buffers[i] \in Seq(Contacts)
      BY <1>1, <1>3 DEF BufferTypes
    <2>2. /\ buffers' \in [Segments -> Seq(Contacts)]
          /\ buffers'[i] = Append(buffers[i], c)
          /\ \A s \in Segments \ {i} : buffers'[s] = buffers[s]
      BY <1>2, <1>3, <2>1
    <2>3. /\ DOMAIN buffers[i] = 1 .. Len(buffers[i]) /\ Len(buffers[i]) \in Nat
          /\ DOMAIN buffers'[i] = 1 .. Len(buffers[i]) + 1
          /\ buffers'[i][Len(buffers[i]) + 1] = c
          /\ \A n \in 1 .. Len(buffers[i]) : buffers'[i][n] = buffers[i][n]
      BY <1>3, <2>1, <2>2
    <2>4. /\ Len(buffers[i]) + 1 \in DOMAIN buffers'[i]
          /\ \A n \in DOMAIN buffers[i] : n \in DOMAIN buffers'[i] /\ buffers'[i][n] = buffers[i][n]
      BY <2>3
    <2>5. Buffered(c, i)'
      BY <1>2, <2>3, <2>4 DEF Buffered, Content
    <2>6. ASSUME NEW e \in Contacts, NEW s \in Segments, Buffered(e, s) PROVE Buffered(e, s)'
      <3>1. CASE s = i
        BY <1>2, <2>4, <2>6, <3>1 DEF Buffered, Content
      <3>2. CASE s # i
        BY <1>2, <2>2, <2>6, <3>2 DEF Buffered, Content
      <3>3. QED
        BY <3>1, <3>2
    <2>7. QED
      BY <2>2, <2>5, <2>6
  <1>6. FlushInv'
    BY <1>1, <1>2, <1>4, NobodyWaits
  <1>7. EntryInv' /\ \A e \in Contacts : Pending(e) => Pending(e)'
    BY <1>1, <1>2, <1>4, EntriesKept
  <1>8. BufferTypes'
    <2>1. timers' \subseteq Segments
      BY <1>1, <1>2, <1>3 DEF BufferTypes
    <2>2. QED
      BY <1>1, <1>2, <1>4, <1>5, <2>1 DEF BufferTypes
  <1>9. ASSUME NEW s \in Segments, NEW e \in due'[s] \ lost'[s]
        PROVE  Carried(e, s)'
    <2>1. e \in Contacts /\ Carried(e, s)
      BY <1>1, <1>2, DueAre DEF CarriedInv
    <2>2. (Flushed(e, s) => Flushed(e, s)') /\ (Lettered(e) => Lettered(e)')
      BY <1>2, <2>1, FlushesIdle, LettersIdle
    <2>3. CASE e = c /\ s = i
      BY <1>5, <2>3 DEF Carried
    <2>4. CASE ~(e = c /\ s = i)
      BY <1>4, <1>5, <1>7, <2>1, <2>2, <2>4 DEF Carried
    <2>5. QED
      BY <2>3, <2>4
  <1>10. QED
    BY <1>1, <1>2, <1>6, <1>7, <1>8, <1>9, CarriedHolds, FlushesIdle DEF BuffersInv

LEMMA PutLastKeeps ==
    ASSUME BuffersInv, NEW k \in Callbacks, PutLast(k)
    PROVE  BuffersInv'
  <1>1. BufferTypes /\ FlushInv /\ EntryInv /\ CarriedInv /\ MarksInv
    BY DEF BuffersInv
  <1>3. PICK c \in Contacts, i \in Segments :
            /\ c = callbacks[k].contact /\ i = callbacks[k].at
            /\ callbacks[k] \in [contact : Contacts, direct : BOOLEAN, at : Segments,
                                 waits : BOOLEAN]
    BY <1>1, CallbackIs DEF PutLast
  <1>4. PICK content \in SUBSET Contacts : content = Content(i) \cup {c}
    BY <1>1, ContentIs
  <1>2. /\ ~callbacks[k].waits /\ Begins(i, content, k)
        /\ IF i \in processing THEN GoesOn(k)
           ELSE callbacks' = [callbacks EXCEPT ![k].waits = TRUE] /\ debounced' = debounced
        /\ windows' = windows /\ empty' = empty /\ dead' = dead /\ resent' = resent /\ due' = due
        /\ circuit' = circuit /\ failures' = failures /\ arrivals' = arrivals /\ faults' = faults
    BY <1>3, <1>4 DEF PutLast, breaker, letters, budgets
  <1>5. /\ buffers' \in [Segments -> Seq(Contacts)] /\ timers' \subseteq Segments
        /\ processing' \subseteq Segments /\ overlapped' \subseteq Segments
        /\ runs' \in [Runs -> RunStates] /\ lost' \in [Segments -> SUBSET Contacts]
        /\ MarksInv'
        /\ \A e \in Contacts, s \in Segments :
             Buffered(e, s) => Buffered(e, s)' \/ (s = i /\ e \in Content(i))
        /\ \A e \in Contacts, s \in Segments : Flushed(e, s) => Flushed(e, s)'
        /\ Content(i) \subseteq content
        /\ \A e \in content : e \in lost'[i] \/ Flushed(e, i)'
        /\ \A s \in Segments : lost[s] \subseteq lost'[s]
        /\ \/ i \in processing /\ runs' = runs
           \/ i \notin processing /\ \E r \in Runs :
                 /\ runs[r] = NoRun
                 /\ runs'[r].by = k /\ runs'[r].segment = i
                 /\ \A q \in Runs \ {r} : runs'[q] = runs[q]
    <2>1. Content(i) \subseteq content /\ k \in 0 .. MaxCallbacks
      BY <1>4 DEF Callbacks
    <2>2. /\ buffers' \in [Segments -> Seq(Contacts)] /\ timers' \subseteq Segments
          /\ processing' \subseteq Segments /\ overlapped' \subseteq Segments
          /\ runs' \in [Runs -> RunStates] /\ lost' \in [Segments -> SUBSET Contacts]
          /\ MarksInv'
      BY <1>1, <1>2, <2>1, BeginsMoves
    <2>3. /\ \A e \in Contacts, s \in Segments :
                Buffered(e, s) => Buffered(e, s)' \/ (s = i /\ e \in Content(i))
          /\ \A e \in Contacts, s \in Segments : Flushed(e, s) => Flushed(e, s)'
          /\ \A e \in content : e \in lost'[i] \/ Flushed(e, i)'
          /\ \A s \in Segments : lost[s] \subseteq lost'[s]
      BY <1>1, <1>2, <2>1, BeginsMoves
    <2>4. \/ i \in processing /\ runs' = runs
          \/ i \notin processing /\ \E r \in Runs :
                /\ runs[r] = NoRun
                /\ runs'[r].by = k /\ runs'[r].segment = i
                /\ \A q \in Runs \ {r} : runs'[q] = runs[q]
      BY <1>1, <1>2, BeginsRuns
    <2>5. QED
      BY <2>1, <2>2, <2>3, <2>4
  <1>6. /\ callbacks' \in [Callbacks -> CallbackStates] /\ debounced' \in [Contacts -> Nat]
        /\ EntriesShrink /\ FlushInv'
        /\ \A e \in Contacts, s \in Segments : Called(e, s) => Called(e, s)' \/ (e = c /\ s = i)
    <2>1. CASE i \in processing
      <3>1. /\ callbacks' \in [Callbacks -> CallbackStates] /\ debounced' \in [Contacts -> Nat]
            /\ \A j \in Callbacks \ {k} : callbacks'[j] = callbacks[j]
            /\ EntriesShrink
            /\ \A e \in Contacts, s \in Segments : Called(e, s) => Called(e, s)' \/ (e = c /\ s = i)
        BY <1>1, <1>2, <1>3, <2>1, GoesOnMoves
      <3>2. QED
        BY <1>1, <1>2, <1>5, <2>1, <3>1, NobodyWaits
    <2>2. CASE i \notin processing
      <3> DEFINE you == [callbacks[k] EXCEPT !.waits = TRUE]
      <3>1. callbacks' = [callbacks EXCEPT ![k] = you] /\ debounced' = debounced
        BY <1>2, <2>2
      <3>2. you \in CallbackStates /\ you.contact = c /\ you.at = i /\ you.waits = TRUE
            /\ you.direct = callbacks[k].direct
        BY <1>3 DEF CallbackStates
      <3> HIDE DEF you
      <3>3. /\ callbacks' \in [Callbacks -> CallbackStates] /\ callbacks'[k] = you
            /\ \A j \in Callbacks \ {k} : callbacks'[j] = callbacks[j]
        BY <1>1, <3>1, <3>2 DEF BufferTypes
      <3>4. EntriesShrink
        BY <1>3, <3>1, <3>2, <3>3 DEF EntriesShrink, InFlight
      <3>5. \A e \in Contacts, s \in Segments : Called(e, s) => Called(e, s)' \/ (e = c /\ s = i)
        BY <1>3, <3>2, <3>3 DEF Called
      <3>6. PICK r \in Runs : /\ runs[r] = NoRun
                              /\ runs'[r].by = k /\ runs'[r].segment = i
                              /\ \A q \in Runs \ {r} : runs'[q] = runs[q]
        BY <1>5, <2>2
      <3>12. k # 0
        BY DEF Callbacks
      <3>7. ASSUME NEW q \in Runs, runs[q].by # 0 PROVE runs[q].by # k /\ q # r
        BY <1>1, <1>2, <3>6, <3>7 DEF FlushInv, NoRun
      <3>8. ASSUME NEW q \in Runs, runs'[q].by # 0
            PROVE  callbacks'[runs'[q].by].waits /\ callbacks'[runs'[q].by].at = runs'[q].segment
        <4>1. CASE q = r
          BY <3>2, <3>3, <3>6, <4>1
        <4>2. CASE q # r
          <5>1. runs'[q] = runs[q] /\ runs[q].by # k /\ runs[q].by \in Callbacks
            BY <1>1, <3>6, <3>7, <3>8, <4>2, RunIs
          <5>2. QED
            BY <1>1, <3>3, <3>8, <5>1 DEF FlushInv
        <4>3. QED
          BY <4>1, <4>2
      <3>9. ASSUME NEW p \in Runs, NEW q \in Runs, runs'[p].by # 0, runs'[p].by = runs'[q].by
            PROVE  p = q
        BY <1>1, <3>6, <3>7, <3>9 DEF FlushInv
      <3>10. FlushInv'
        BY <3>8, <3>9 DEF FlushInv
      <3>11. QED
        BY <1>1, <3>1, <3>3, <3>4, <3>5, <3>10 DEF BufferTypes
    <2>3. QED
      BY <2>1, <2>2
  <1>7. EntryInv' /\ \A e \in Contacts : Pending(e) => Pending(e)'
    BY <1>1, <1>2, <1>6, EntriesKept
  <1>8. BufferTypes'
    BY <1>1, <1>2, <1>5, <1>6 DEF BufferTypes
  <1>9. ASSUME NEW s \in Segments, NEW e \in due'[s] \ lost'[s]
        PROVE  Carried(e, s)'
    <2>1. e \in Contacts /\ Carried(e, s)
      BY <1>1, <1>2, <1>5, DueAre DEF CarriedInv
    <2>2. (Flushed(e, s) => Flushed(e, s)') /\ (Lettered(e) => Lettered(e)')
      BY <1>2, <1>5, <2>1, LettersIdle
    <2>3. CASE s = i /\ e \in content
      BY <1>5, <2>3 DEF Carried
    <2>4. CASE ~(s = i /\ e \in content)
      <3>1. s # i \/ (e # c /\ e \notin Content(i))
        BY <1>4, <2>4
      <3>2. QED
        BY <1>5, <1>6, <1>7, <2>1, <2>2, <3>1 DEF Carried
    <2>5. QED
      BY <2>3, <2>4
  <1>10. QED
    BY <1>5, <1>6, <1>7, <1>8, <1>9, CarriedHolds DEF BuffersInv

LEMMA TimerFiresKeeps ==
    ASSUME BuffersInv, NEW i \in Segments, TimerFires(i)
    PROVE  BuffersInv'
  <1>1. BufferTypes /\ FlushInv /\ EntryInv /\ CarriedInv /\ MarksInv
    BY DEF BuffersInv
  <1>2. /\ Begins(i, Content(i), 0) /\ debounced' = debounced /\ callbacks' = callbacks
        /\ windows' = windows /\ empty' = empty /\ dead' = dead /\ resent' = resent /\ due' = due
        /\ circuit' = circuit /\ failures' = failures /\ arrivals' = arrivals /\ faults' = faults
    BY DEF TimerFires, debouncer, breaker, letters, budgets
  <1>3. Content(i) \in SUBSET Contacts /\ 0 \in 0 .. MaxCallbacks
    BY <1>1, ContentIs, SizesAssumption
  <1>4. /\ buffers' \in [Segments -> Seq(Contacts)] /\ timers' \subseteq Segments
        /\ processing' \subseteq Segments /\ overlapped' \subseteq Segments
        /\ runs' \in [Runs -> RunStates] /\ lost' \in [Segments -> SUBSET Contacts]
        /\ MarksInv'
        /\ \A e \in Contacts, s \in Segments :
             Buffered(e, s) => Buffered(e, s)' \/ (s = i /\ e \in Content(i))
        /\ \A e \in Contacts, s \in Segments : Flushed(e, s) => Flushed(e, s)'
        /\ \A e \in Content(i) : e \in lost'[i] \/ Flushed(e, i)'
        /\ \A s \in Segments : lost[s] \subseteq lost'[s]
        /\ \/ i \in processing /\ runs' = runs
           \/ i \notin processing /\ \E r \in Runs :
                 /\ runs[r] = NoRun
                 /\ runs'[r].by = 0 /\ runs'[r].segment = i
                 /\ \A q \in Runs \ {r} : runs'[q] = runs[q]
    BY <1>1, <1>2, <1>3, BeginsMoves, BeginsRuns
  <1>5. FlushInv'
    <2>1. \A r \in Runs : runs'[r].by # 0 => runs'[r] = runs[r]
      BY <1>4
    <2>2. QED
      BY <1>1, <1>2, <2>1 DEF FlushInv
  <1>6. /\ EntryInv' /\ \A e \in Contacts : Pending(e) => Pending(e)'
        /\ \A e \in Contacts, s \in Segments : Called(e, s) => Called(e, s)'
    BY <1>1, <1>2, DebouncerIdle
  <1>7. BufferTypes'
    BY <1>1, <1>2, <1>4 DEF BufferTypes
  <1>8. ASSUME NEW s \in Segments, NEW e \in due'[s] \ lost'[s]
        PROVE  Carried(e, s)'
    <2>1. e \in Contacts /\ Carried(e, s)
      BY <1>1, <1>2, <1>4, DueAre DEF CarriedInv
    <2>2. (Flushed(e, s) => Flushed(e, s)') /\ (Lettered(e) => Lettered(e)')
      BY <1>2, <1>4, <2>1, LettersIdle
    <2>3. CASE s = i /\ e \in Content(i)
      BY <1>4, <2>3 DEF Carried
    <2>4. CASE ~(s = i /\ e \in Content(i))
      BY <1>4, <1>6, <2>1, <2>2, <2>4 DEF Carried
    <2>5. QED
      BY <2>3, <2>4
  <1>9. QED
    BY <1>4, <1>5, <1>6, <1>7, <1>8, CarriedHolds DEF BuffersInv

-------------------------------------------------------------------------------
(* SegmentBuffers: flushes that run.                                         *)

\* A flush r that ends leaves what the others flush.
LEMMA OthersFlush ==
    ASSUME NEW r \in Runs, \A q \in Runs \ {r} : runs'[q] = runs[q]
    PROVE  \A e \in Contacts, i \in Segments :
             Flushed(e, i) =>
                \/ Flushed(e, i)'
                \/ i = runs[r].segment /\ e \in runs[r].contacts /\ ~runs[r].evaluated
  BY DEF Flushed

LEMMA EvaluateKeeps ==
    ASSUME BuffersInv, NEW r \in Runs, Evaluate(r)
    PROVE  BuffersInv'
  <1>1. BufferTypes /\ FlushInv /\ EntryInv /\ CarriedInv /\ MarksInv
    BY DEF BuffersInv
  <1>2. /\ debounced' = debounced /\ callbacks' = callbacks /\ windows' = windows
        /\ buffers' = buffers /\ timers' = timers /\ processing' = processing
        /\ empty' = empty /\ dead' = dead /\ resent' = resent
        /\ circuit' = circuit /\ failures' = failures /\ overlapped' = overlapped
        /\ arrivals' = arrivals /\ faults' = faults
    BY DEF Evaluate, debouncer, breaker, letters, budgets
  <1>3. PICK s \in Segments, contacts \in SUBSET Contacts :
            s = runs[r].segment /\ contacts = runs[r].contacts
    BY <1>1, RunIs DEF Evaluate
  <1>4. runs[r] \in [segment : Segments, contacts : SUBSET Contacts, by : 0 .. MaxCallbacks,
                     evaluated : BOOLEAN]
    BY <1>1, RunIs DEF Evaluate
  <1>5. /\ runs' \in [Runs -> RunStates]
        /\ runs'[r].segment = s /\ runs'[r].by = runs[r].by
        /\ \A q \in Runs \ {r} : runs'[q] = runs[q]
    <2> DEFINE new == [runs[r] EXCEPT !.evaluated = TRUE]
    <2>1. runs' = [runs EXCEPT ![r] = new]
      BY DEF Evaluate
    <2>2. new \in RunStates /\ new.segment = s /\ new.by = runs[r].by
      BY <1>3, <1>4 DEF RunStates
    <2> HIDE DEF new
    <2>3. QED
      BY <1>1, <2>1, <2>2 DEF BufferTypes
  <1>6. /\ due \in [Segments -> SUBSET Contacts] /\ lost \in [Segments -> SUBSET Contacts]
        /\ due' \in [Segments -> SUBSET Contacts] /\ lost' \in [Segments -> SUBSET Contacts]
        /\ \A i \in Segments : due'[i] \ lost'[i] \subseteq due[i] \ lost[i]
        /\ \A e \in contacts : e \notin due'[s] \ lost'[s]
    <2>1. due \in [Segments -> SUBSET Contacts] /\ lost \in [Segments -> SUBSET Contacts]
      BY <1>1 DEF BufferTypes
    <2>2. CASE s \in empty
      <3>1. lost' = [lost EXCEPT ![s] = @ \cup contacts] /\ due' = due
        BY <1>3, <2>2 DEF Evaluate
      <3>2. QED
        BY <2>1, <3>1
    <2>3. CASE s \notin empty
      <3>1. lost' = [lost EXCEPT ![s] = @ \ contacts] /\ due' = [due EXCEPT ![s] = @ \ contacts]
        BY <1>3, <2>3 DEF Evaluate
      <3>2. QED
        BY <2>1, <3>1
    <2>4. QED
      BY <2>2, <2>3
  <1>7. BufferTypes'
    BY <1>1, <1>2, <1>5, <1>6 DEF BufferTypes
  <1>8. \A q \in Runs : runs'[q].segment = runs[q].segment /\ runs'[q].by = runs[q].by
    BY <1>3, <1>5
  <1>9. FlushInv' /\ MarksInv'
    BY <1>1, <1>2, <1>8 DEF FlushInv, MarksInv
  <1>10. ASSUME NEW i \in Segments, NEW e \in due'[i] \ lost'[i]
         PROVE  Carried(e, i)'
    <2>1. e \in Contacts /\ Carried(e, i) /\ ~(i = s /\ e \in contacts)
      BY <1>1, <1>6, DueAre DEF CarriedInv
    <2>2. Flushed(e, i) => Flushed(e, i)'
      BY <1>3, <1>5, <2>1, OthersFlush
    <2>3. QED
      BY <1>1, <1>2, <2>1, <2>2, DebouncerIdle, BuffersIdle, LettersIdle DEF Carried
  <1>11. QED
    BY <1>1, <1>2, <1>7, <1>9, <1>10, CarriedHolds, DebouncerIdle DEF BuffersInv

\* The callback k of a flush r that ends is no other flush's.
LEMMA OthersWait ==
    ASSUME BufferTypes, FlushInv, NEW r \in Runs, NEW k, k = runs[r].by, k # 0,
           runs'[r] = NoRun, \A q \in Runs \ {r} : runs'[q] = runs[q],
           \A j \in Callbacks \ {k} : callbacks'[j] = callbacks[j]
    PROVE  FlushInv'
  <1>1. runs'[r].by = 0
    BY DEF NoRun
  <1>2. ASSUME NEW q \in Runs, runs'[q].by # 0
        PROVE  q # r /\ runs'[q] = runs[q] /\ runs[q].by # 0 /\ runs[q].by \in Callbacks \ {k}
    <2>1. q # r /\ runs'[q] = runs[q] /\ runs[q].by # 0
      BY <1>1, <1>2
    <2>2. QED
      BY <2>1, RunIs DEF FlushInv
  <1>3. ASSUME NEW q \in Runs, runs'[q].by # 0
        PROVE  callbacks'[runs'[q].by].waits /\ callbacks'[runs'[q].by].at = runs'[q].segment
    BY <1>2, <1>3 DEF FlushInv
  <1>4. ASSUME NEW p \in Runs, NEW q \in Runs, runs'[p].by # 0, runs'[p].by = runs'[q].by
        PROVE  p = q
    BY <1>2, <1>4 DEF FlushInv
  <1>5. QED
    BY <1>3, <1>4 DEF FlushInv

LEMMA FinishKeeps ==
    ASSUME BuffersInv, NEW r \in Runs, Finish(r)
    PROVE  BuffersInv'
  <1>1. BufferTypes /\ FlushInv /\ EntryInv /\ CarriedInv /\ MarksInv
    BY DEF BuffersInv
  <1>2. /\ runs[r].evaluated /\ Ends(r)
        /\ windows' = windows /\ buffers' = buffers /\ timers' = timers
        /\ dead' = dead /\ resent' = resent /\ due' = due /\ lost' = lost
        /\ arrivals' = arrivals
    BY DEF Finish, letters
  <1>3. runs[r].segment # 0 /\ runs[r].segment \in Segments
    BY <1>1, <1>2, RunIs
  <1>4. /\ runs' \in [Runs -> RunStates] /\ runs'[r] = NoRun
        /\ \A q \in Runs \ {r} : runs'[q] = runs[q]
        /\ processing' \subseteq Segments /\ overlapped' \subseteq Segments
        /\ MarksInv'
    BY <1>1, <1>2, <1>3, EndsMoves
  <1>5. /\ circuit' \in {"CLOSED", "OPEN", "HALF_OPEN"} /\ failures' \in 0 .. FailureThreshold
        /\ faults' \in 0 .. MaxFaults /\ empty' \subseteq Segments
    <2>1. faults \in 0 .. MaxFaults /\ empty \subseteq Segments
      BY <1>1 DEF BufferTypes
    <2>2. QED
      BY <1>1, <1>3, <2>1, CircuitMoves DEF Finish
  <1>6. /\ callbacks' \in [Callbacks -> CallbackStates] /\ debounced' \in [Contacts -> Nat]
        /\ EntriesShrink /\ FlushInv'
        /\ \A e \in Contacts, s \in Segments : Called(e, s) => Called(e, s)'
    <2>1. CASE runs[r].by = 0
      <3>1. callbacks' = callbacks /\ debounced' = debounced
        BY <2>1 DEF Finish
      <3>2. FlushInv'
        <4>1. \A q \in Runs : runs'[q].by # 0 => runs'[q] = runs[q]
          BY <1>4 DEF NoRun
        <4>2. QED
          BY <1>1, <3>1, <4>1 DEF FlushInv
      <3>3. \A e \in Contacts, s \in Segments : Called(e, s) => Called(e, s)'
        BY <3>1 DEF Called
      <3>4. QED
        BY <1>1, <3>1, <3>2, <3>3, EntriesSame DEF BufferTypes
    <2>2. CASE runs[r].by # 0
      <3>1. PICK k \in Callbacks : k = runs[r].by
        BY <1>1, <2>2, RunIs
      <3>2. callbacks[k].waits /\ callbacks[k].contact \in Contacts
        BY <1>1, <2>2, <3>1, CallbackIs DEF FlushInv
      <3>3. GoesOn(k)
        BY <2>2, <3>1 DEF Finish
      <3>4. /\ callbacks' \in [Callbacks -> CallbackStates] /\ debounced' \in [Contacts -> Nat]
            /\ \A j \in Callbacks \ {k} : callbacks'[j] = callbacks[j]
            /\ EntriesShrink
            /\ \A e \in Contacts, s \in Segments : Called(e, s) => Called(e, s)'
        BY <1>1, <3>2, <3>3, GoesOnMoves
      <3>5. FlushInv'
        BY <1>1, <1>4, <2>2, <3>1, <3>4, OthersWait
      <3>6. QED
        BY <3>4, <3>5
    <2>3. QED
      BY <2>1, <2>2
  <1>7. EntryInv' /\ \A e \in Contacts : Pending(e) => Pending(e)'
    BY <1>1, <1>2, <1>6, EntriesKept
  <1>8. BufferTypes'
    BY <1>1, <1>2, <1>4, <1>5, <1>6 DEF BufferTypes
  <1>9. ASSUME NEW s \in Segments, NEW e \in due'[s] \ lost'[s]
        PROVE  Carried(e, s)'
    <2>1. e \in Contacts /\ Carried(e, s)
      BY <1>1, <1>2, DueAre DEF CarriedInv
    <2>2. Flushed(e, s) => Flushed(e, s)'
      BY <1>2, <1>4, <2>1, OthersFlush
    <2>3. (Buffered(e, s) => Buffered(e, s)') /\ (Lettered(e) => Lettered(e)')
      BY <1>2, <2>1, BuffersIdle, LettersIdle
    <2>4. QED
      BY <1>6, <1>7, <2>1, <2>2, <2>3 DEF Carried
  <1>10. QED
    BY <1>4, <1>6, <1>7, <1>8, <1>9, CarriedHolds DEF BuffersInv

LEMMA FailKeeps ==
    ASSUME BuffersInv, NEW r \in Runs, Fail(r)
    PROVE  BuffersInv'
  <1>1. BufferTypes /\ FlushInv /\ EntryInv /\ CarriedInv /\ MarksInv
    BY DEF BuffersInv
  <1>2. PICK k \in Callbacks, s \in Segments, contacts \in SUBSET Contacts :
            /\ k = runs[r].by /\ k # 0
            /\ s = runs[r].segment /\ s # 0 /\ contacts = runs[r].contacts
    BY <1>1, RunIs DEF Fail
  <1>3. callbacks[k].waits /\ callbacks[k].at = s
    BY <1>1, <1>2 DEF FlushInv
  <1>4. PICK c \in Contacts : c = callbacks[k].contact
    BY <1>1, <1>3, CallbackIs
  <1>5. /\ Ends(r) /\ callbacks' = [callbacks EXCEPT ![k] = NoCallback]
        /\ debounced' = IF callbacks[k].direct THEN debounced ELSE [debounced EXCEPT ![c] = 0]
        /\ lost' = [i \in Segments |->
                      lost[i] \cup (IF i = s THEN contacts ELSE {})
                              \cup (IF i >= s THEN {c} ELSE {})]
        /\ \E cs : dead' = Letters(cs)
        /\ \E n \in {1, 2} : Fails(n)
        /\ Fault
        /\ windows' = windows /\ buffers' = buffers /\ timers' = timers /\ empty' = empty
        /\ resent' = resent /\ due' = due /\ arrivals' = arrivals
    BY <1>2, <1>4 DEF Fail
  <1>6. /\ runs' \in [Runs -> RunStates] /\ runs'[r] = NoRun
        /\ \A q \in Runs \ {r} : runs'[q] = runs[q]
        /\ processing' \subseteq Segments /\ overlapped' \subseteq Segments
        /\ MarksInv'
    BY <1>1, <1>2, <1>5, EndsMoves
  <1>7. /\ circuit' \in {"CLOSED", "OPEN", "HALF_OPEN"} /\ failures' \in 0 .. FailureThreshold
        /\ faults' \in 0 .. MaxFaults
    BY <1>1, <1>5, CircuitMoves
  <1>8. /\ lost' \in [Segments -> SUBSET Contacts]
        /\ \A i \in Segments : lost[i] \subseteq lost'[i]
        /\ contacts \subseteq lost'[s]
        /\ \A i \in Segments : i >= s => c \in lost'[i]
    <2>1. lost \in [Segments -> SUBSET Contacts]
      BY <1>1 DEF BufferTypes
    <2>2. QED
      BY <1>2, <1>5, <2>1
  <1>9. /\ dead' \in [Contacts -> {NoContact, "timed", "stranded"}]
        /\ \A e \in Contacts : Lettered(e) => Lettered(e)'
    BY <1>1, <1>5 DEF Letters, Lettered, BufferTypes
  <1>10. /\ callbacks' \in [Callbacks -> CallbackStates] /\ callbacks'[k] = NoCallback
         /\ \A j \in Callbacks \ {k} : callbacks'[j] = callbacks[j]
    BY <1>1, <1>5 DEF BufferTypes, CallbackStates
  <1>11. debounced' \in [Contacts -> Nat] /\ EntriesShrink
    <2>1. debounced \in [Contacts -> Nat] /\ callbacks[k].direct \in BOOLEAN
      BY <1>1, <1>4, CallbackIs DEF BufferTypes
    <2>2. NoCallback.contact \notin Contacts
      BY ContactsAssumption DEF NoCallback
    <2>3. QED
      BY <1>4, <1>5, <1>10, <2>1, <2>2 DEF EntriesShrink, InFlight
  <1>12. EntryInv' /\ \A e \in Contacts : Pending(e) => Pending(e)'
    BY <1>1, <1>5, <1>11, EntriesKept
  <1>13. FlushInv'
    BY <1>1, <1>2, <1>6, <1>10, OthersWait
  <1>14. BufferTypes'
    BY <1>1, <1>5, <1>6, <1>7, <1>8, <1>9, <1>10, <1>11 DEF BufferTypes
  <1>15. ASSUME NEW e \in Contacts, NEW i \in Segments, Called(e, i), e \notin lost'[i]
         PROVE  Called(e, i)'
    <2>1. PICK j \in Callbacks :
            /\ callbacks[j].contact = e
            /\ callbacks[j].at < i \/ (callbacks[j].at = i /\ ~callbacks[j].waits)
      BY <1>15 DEF Called
    <2>2. CASE j = k
      <3>1. s \in Nat /\ i \in Nat
        BY SizesAssumption DEF Segments
      <3>2. s < i /\ e = c
        BY <1>3, <1>4, <2>1, <2>2
      <3>3. QED
        BY <1>8, <1>15, <3>1, <3>2
    <2>3. CASE j # k
      BY <1>10, <2>1, <2>3 DEF Called
    <2>4. QED
      BY <2>2, <2>3
  <1>16. ASSUME NEW i \in Segments, NEW e \in due'[i] \ lost'[i]
         PROVE  Carried(e, i)'
    <2>1. e \in Contacts /\ Carried(e, i) /\ ~(i = s /\ e \in contacts)
      BY <1>1, <1>5, <1>8, DueAre DEF CarriedInv
    <2>2. Flushed(e, i) => Flushed(e, i)'
      BY <1>2, <1>6, <2>1, OthersFlush
    <2>3. Buffered(e, i) => Buffered(e, i)'
      BY <1>5, <2>1, BuffersIdle
    <2>4. QED
      BY <1>9, <1>12, <1>15, <1>16, <2>1, <2>2, <2>3 DEF Carried
  <1>17. QED
    BY <1>6, <1>12, <1>13, <1>14, <1>16, CarriedHolds DEF BuffersInv

-------------------------------------------------------------------------------
(* SegmentBuffers: dead letters, the process's end, and all of it.           *)

LEMMA RetryKeeps ==
    ASSUME BuffersInv, NEW c \in Contacts, Retry(c)
    PROVE  BuffersInv'
  <1>1. BufferTypes /\ FlushInv /\ EntryInv /\ CarriedInv /\ MarksInv
    BY DEF BuffersInv
  <1>2. /\ debounced' = debounced /\ windows' = windows /\ callbacks' = callbacks
        /\ buffers' = buffers /\ timers' = timers /\ processing' = processing
        /\ runs' = runs /\ empty' = empty /\ circuit' = circuit /\ failures' = failures
        /\ due' = due /\ overlapped' = overlapped /\ arrivals' = arrivals
    BY DEF Retry, debouncer, breaker
  <1>3. /\ lost \in [Segments -> SUBSET Contacts] /\ resent \subseteq Contacts
        /\ dead \in [Contacts -> {NoContact, "timed", "stranded"}] /\ faults \in 0 .. MaxFaults
    BY <1>1 DEF BufferTypes
  <1>4. /\ lost' \in [Segments -> SUBSET Contacts] /\ resent' \subseteq Contacts
        /\ dead' \in [Contacts -> {NoContact, "timed", "stranded"}] /\ faults' \in 0 .. MaxFaults
        /\ \A s \in Segments : lost[s] \subseteq lost'[s]
        /\ \A e \in Contacts \ {c} : Lettered(e) => Lettered(e)'
        /\ Lettered(c)' \/ \A s \in Segments : c \in lost'[s]
    <2>1. CASE /\ dead' = [dead EXCEPT ![c] = NoContact] /\ resent' = resent \cup {c}
               /\ lost' = lost /\ faults' = faults
      BY <1>3, <2>1 DEF Lettered
    <2>2. CASE /\ Fault /\ dead' = [dead EXCEPT ![c] = "stranded"]
               /\ lost' = Everywhere(lost, c) /\ resent' = resent
      <3>1. faults' \in 0 .. MaxFaults
        BY <1>1, <2>2, CircuitMoves
      <3>2. /\ lost' \in [Segments -> SUBSET Contacts]
            /\ \A s \in Segments : lost[s] \subseteq lost'[s] /\ c \in lost'[s]
        BY <1>3, <2>2, EverywhereIs
      <3>3. QED
        BY <1>3, <2>2, <3>1, <3>2 DEF Lettered
    <2>3. QED
      BY <2>1, <2>2 DEF Retry
  <1>5. BufferTypes'
    BY <1>1, <1>2, <1>4 DEF BufferTypes
  <1>6. ASSUME NEW s \in Segments, NEW e \in due'[s] \ lost'[s]
        PROVE  Carried(e, s)'
    <2>1. e \in Contacts /\ e \in due[s] \ lost[s]
      BY <1>1, <1>2, <1>4, DueAre
    <2>2. Lettered(e) => Lettered(e)'
      BY <1>4, <2>1
    <2>3. QED
      BY <1>1, <1>2, <2>1, <2>2, DebouncerIdle, BuffersIdle, FlushesIdle, AllCarried
  <1>7. QED
    BY <1>1, <1>2, <1>5, <1>6, CarriedHolds, DebouncerIdle, FlushesIdle, FlushWaitIdle
       DEF BuffersInv

\* The memory of a process that has just begun.
Blank ==
    /\ debounced = NoEntries /\ windows = {} /\ callbacks = NoCallbacks
    /\ buffers = NoBuffers /\ timers = {}
    /\ processing = {} /\ runs = NoRuns /\ overlapped = {}
    /\ circuit = "CLOSED" /\ failures = 0 /\ dead = NoLetters

BlankTypes ==
    /\ debounced \in [Contacts -> Nat] /\ windows \subseteq Contacts
    /\ callbacks \in [Callbacks -> CallbackStates]
    /\ buffers \in [Segments -> Seq(Contacts)] /\ timers \subseteq Segments
    /\ processing \subseteq Segments /\ overlapped \subseteq Segments
    /\ runs \in [Runs -> RunStates]
    /\ circuit \in {"CLOSED", "OPEN", "HALF_OPEN"} /\ failures \in 0 .. FailureThreshold
    /\ dead \in [Contacts -> {NoContact, "timed", "stranded"}]

LEMMA BlankHolds == Blank => BlankTypes /\ FlushInv /\ EntryInv /\ MarksInv
  <1> SUFFICES ASSUME Blank PROVE BlankTypes /\ FlushInv /\ EntryInv /\ MarksInv
    OBVIOUS
  <1>1. BlankTypes
    <2>1. FailureThreshold \in Nat
      BY SizesAssumption
    <2>2. debounced \in [Contacts -> Nat] /\ callbacks \in [Callbacks -> CallbackStates]
          /\ runs \in [Runs -> RunStates] /\ dead \in [Contacts -> {NoContact, "timed", "stranded"}]
      BY DEF Blank, NoEntries, NoCallbacks, CallbackStates, NoRuns, RunStates, NoLetters
    <2>3. buffers \in [Segments -> Seq(Contacts)]
      <3>1. << >> \in Seq(Contacts)
        OBVIOUS
      <3>2. QED
        BY <3>1 DEF Blank, NoBuffers
    <2>4. QED
      BY <2>1, <2>2, <2>3 DEF Blank, BlankTypes
  <1>2. \A r \in Runs : runs[r].by = 0 /\ runs[r].segment = 0
    BY DEF Blank, NoRuns, NoRun
  <1>3. \A c \in Contacts : debounced[c] = 0
    BY DEF Blank, NoEntries
  <1>4. FlushInv
    BY <1>2 DEF FlushInv
  <1>5. EntryInv
    BY <1>3 DEF EntryInv
  <1>6. 0 \notin Segments
    BY SizesAssumption DEF Segments
  <1>7. MarksInv
    BY <1>2, <1>6 DEF MarksInv, Blank
  <1>8. QED
    BY <1>1, <1>4, <1>5, <1>7

LEMMA CrashKeeps == ASSUME BuffersInv, ProcessEnds PROVE BuffersInv'
  <1>1. BufferTypes
    BY DEF BuffersInv
  <1>2. Blank' /\ lost' = due /\ due' = due /\ empty' = empty /\ resent' = resent
        /\ arrivals' = arrivals /\ Fault
    BY DEF ProcessEnds, Blank, NoEntries, NoCallbacks, NoBuffers, NoRuns, NoLetters
  <1>3. (Blank => BlankTypes /\ FlushInv /\ EntryInv /\ MarksInv)'
    BY BlankHolds, PTL
  <1>4. BlankTypes' /\ FlushInv' /\ EntryInv' /\ MarksInv'
    BY <1>2, <1>3
  <1>5. BufferTypes'
    <2>1. faults' \in 0 .. MaxFaults
      BY <1>1, <1>2, CircuitMoves
    <2>2. QED
      BY <1>1, <1>2, <1>4, <2>1 DEF BufferTypes, BlankTypes
  <1>6. \A s \in Segments : due'[s] \ lost'[s] = {}
    BY <1>2
  <1>7. QED
    BY <1>4, <1>5, <1>6, CarriedHolds DEF BuffersInv

LEMMA BuffersInit == BufferInit => BuffersInv
  <1> SUFFICES ASSUME BufferInit PROVE BuffersInv
    OBVIOUS
  <1>1. Blank /\ empty = {} /\ resent = {} /\ arrivals = 0 /\ faults = 0
        /\ due = [s \in Segments |-> {}] /\ lost = [s \in Segments |-> {}]
    BY DEF BufferInit, Blank
  <1>2. BlankTypes /\ FlushInv /\ EntryInv /\ MarksInv
    BY <1>1, BlankHolds
  <1>3. BufferTypes
    <2>1. MaxArrivals \in Nat /\ MaxFaults \in Nat
      BY SizesAssumption
    <2>2. QED
      BY <1>1, <1>2, <2>1 DEF BufferTypes, BlankTypes
  <1>4. CarriedInv
    BY <1>1 DEF CarriedInv
  <1>5. QED
    BY <1>2, <1>3, <1>4 DEF BuffersInv

LEMMA BuffersStep == BuffersInv /\ [BufferNext /\ WithinBound]_bufferVars => BuffersInv'
  <1> SUFFICES ASSUME BuffersInv, [BufferNext /\ WithinBound]_bufferVars PROVE BuffersInv'
    OBVIOUS
  <1>1. ASSUME NEW c \in Contacts, Accept(c) \/ Refuse(c) \/ WindowEnds(c) \/ Retry(c)
        PROVE  BuffersInv'
    BY <1>1, AcceptKeeps, RefuseKeeps, WindowEndsKeeps, RetryKeeps
  <1>2. ASSUME NEW k \in Callbacks, PutEvent(k) \/ PutLast(k) PROVE BuffersInv'
    BY <1>2, PutKeeps, PutLastKeeps
  <1>3. ASSUME NEW s \in Segments, TimerFires(s) PROVE BuffersInv'
    BY <1>3, TimerFiresKeeps
  <1>4. ASSUME NEW r \in Runs, Evaluate(r) \/ Finish(r) \/ Fail(r) PROVE BuffersInv'
    BY <1>4, EvaluateKeeps, FinishKeeps, FailKeeps
  <1>5. CASE ProcessEnds
    BY <1>5, CrashKeeps
  <1>6. CASE UNCHANGED bufferVars
    <2>1. /\ debounced' = debounced /\ windows' = windows /\ callbacks' = callbacks
          /\ buffers' = buffers /\ timers' = timers /\ processing' = processing
          /\ runs' = runs /\ empty' = empty /\ circuit' = circuit /\ failures' = failures
          /\ dead' = dead /\ resent' = resent /\ due' = due /\ lost' = lost
          /\ overlapped' = overlapped /\ arrivals' = arrivals /\ faults' = faults
      BY <1>6 DEF bufferVars
    <2>2. QED
      BY <2>1 DEF BuffersInv, BufferTypes, FlushInv, EntryInv, InFlight, CarriedInv, Carried,
                  Pending, Called, Buffered, Content, Flushed, Lettered, MarksInv
  <1>7. QED
    BY <1>1, <1>2, <1>3, <1>4, <1>5, <1>6 DEF BufferNext

LEMMA MarksAre == ASSUME BuffersInv PROVE ProcessingMarks
  <1> SUFFICES ASSUME NEW s \in Segments
               PROVE  LET mine == {r \in Runs : runs[r].segment = s} IN
                      /\ s \in processing => mine # {}
                      /\ s \notin overlapped => /\ Cardinality(mine) <= 1
                                                /\ mine # {} => s \in processing
    BY DEF ProcessingMarks
  <1> DEFINE mine == {r \in Runs : runs[r].segment = s}
  <1>1. s \in processing => mine # {}
    BY DEF BuffersInv, MarksInv
  <1>2. ASSUME s \notin overlapped
        PROVE  Cardinality(mine) <= 1 /\ (mine # {} => s \in processing)
    <2>1. CASE mine = {}
      <3>1. Cardinality(mine) = 0
        BY <2>1, FS_EmptySet
      <3>2. QED
        BY <2>1, <3>1
    <2>2. CASE mine # {}
      <3>1. PICK r \in Runs : runs[r].segment = s
        BY <2>2
      <3>2. s \in processing /\ \A q \in Runs : runs[q].segment = s => q = r
        BY <1>2, <3>1 DEF BuffersInv, MarksInv
      <3>3. mine = {r}
        BY <3>1, <3>2
      <3>4. Cardinality(mine) = 1
        BY <3>3, FS_Singleton
      <3>5. QED
        BY <3>2, <3>4
    <2>3. QED
      BY <2>1, <2>2
  <1>3. QED
    BY <1>1, <1>2

LEMMA BuffersPromise == BuffersInv => BuffersKeepEvents
  <1> SUFFICES ASSUME BuffersInv PROVE BuffersKeepEvents
    OBVIOUS
  <1>1. BufferTypeOK
    BY BufferTypesAre DEF BuffersInv
  <1>2. ASSUME NEW c \in Contacts, NEW s \in Segments, Carried(c, s) PROVE OnItsWay(c, s)
    <2>1. ASSUME Called(c, s) PROVE OnItsWay(c, s)
      <3>1. PICK k \in Callbacks :
              /\ callbacks[k].contact = c
              /\ callbacks[k].at < s \/ (callbacks[k].at = s /\ ~callbacks[k].waits)
        BY <2>1 DEF Called
      <3>2. CASE callbacks[k].at < s
        BY <3>1, <3>2 DEF OnItsWay
      <3>3. CASE callbacks[k].at = s /\ ~callbacks[k].waits
        <4>1. callbacks[k].at <= s
          BY <3>3, SizesAssumption DEF Segments
        <4>2. QED
          BY <3>1, <3>3, <4>1 DEF OnItsWay
      <3>4. QED
        BY <3>1, <3>2, <3>3
    <2>2. QED
      BY <1>2, <2>1 DEF Carried, Pending, Buffered, Flushed, Lettered, OnItsWay
  <1>3. NothingElseLost
    <2>1. ASSUME NEW s \in Segments, NEW c \in due[s] \ lost[s] PROVE OnItsWay(c, s)
      BY <1>2, DueAre DEF BuffersInv, CarriedInv
    <2>2. QED
      BY <2>1 DEF NothingElseLost
  <1>4. QED
    BY <1>1, <1>3, MarksAre DEF BuffersKeepEvents

\* Whatever becomes of callbacks, buffers, flushes and dead letters, the contact
\* of an accepted event is evaluated for every segment concerned, on its way
\* there with something that takes it further, or lost by one of the six causes
\* that are named; and a segment marked as being processed is, by one flush,
\* unless one that was refused took the mark away.
THEOREM EventsAreKept == BufferSpec => []BuffersKeepEvents
  <1>1. BufferSpec => []BuffersInv
    BY BuffersInit, BuffersStep, PTL DEF BufferSpec
  <1>2. QED
    BY <1>1, BuffersPromise, PTL

-------------------------------------------------------------------------------
(* Journeys: one visible run of a journey.                                   *)

Nodes == NodesOf(flow)

IsRecord(r) ==
    /\ r \in [status : Statuses \cup {"none"}, wait : {0} \cup Nodes, wf : BOOLEAN]
    /\ r.status = "none" => r = None
    /\ r.status = "waiting" => r.wait \in Nodes
Records == {r \in [status : Statuses \cup {"none"}, wait : {0} \cup Nodes, wf : BOOLEAN] :
              IsRecord(r)}

Jobs == [pc : JobPCs, id : Sessions \cup {Nobody}, todo : SUBSET (Sessions \X Nodes),
         rec : Records, to : Statuses \cup {"none"}, then : {"done", "resume"}]

Workflows == [pc : PCs, node : Nodes, status : {"running", "completed", "failed"},
              done : SUBSET Nodes]
Copies == [op : Ops \cup {"none"}, rec : Records]

StoreTypes ==
    redis \in [Sessions -> Records] /\ rows \in [Sessions -> Records] /\ index \subseteq Sessions

WorkflowTypes ==
    /\ flow \in Flows
    /\ wf \in [Sessions -> Workflows]
    /\ buf \in [Sessions -> Copies]

ClaimTypes ==
    claimed \subseteq Messages /\ starts \in [Messages -> Nat] /\ outages \in Nat

MarkTypes == touched \subseteq Sessions /\ flushed \in BOOLEAN

JobTypes == job \in [Actors -> Jobs]

\* An activity in progress is what its workflow waits for, unless that was
\* terminated.
ActivityInv ==
    \A s \in Sessions : buf[s] # Idle =>
        buf[s].op \in Ops /\ (wf[s].pc = buf[s].op \/ wf[s].pc = "killed")

\* Who ends a session has touched it, and who starts one is alone with it.
JobOK(a) ==
    /\ job[a].pc \in {"idle", "guard", "claim", "create"} => job[a].id = Nobody
    /\ job[a].pc \in {"complete", "verdict", "failed", "read", "write", "cancel", "remove", "drop"}
         => job[a].id \in Sessions
    /\ job[a].pc \in {"read", "write"} =>
         job[a].to = "active" \/ (job[a].to \in {"cancelled", "failed"} /\ job[a].id \in touched)
    /\ job[a].pc \in {"failed", "cancel", "remove", "drop"} => job[a].id \in touched
    /\ job[a].pc = "verdict" => Started(job[a].id)
    /\ job[a].pc = "start" /\ job[a].id # Nobody => ~Started(job[a].id)
    /\ job[a].pc = "create" => a \notin Deliveries

JobsInv == \A a \in Actors : JobOK(a)

AtStart(a, s) == job[a].pc = "start" /\ job[a].id = s

StartsAlone == \A a, b \in Actors : \A s \in Sessions : AtStart(a, s) /\ AtStart(b, s) => a = b

\* Redis has the session of a workflow that executes nodes, and so has the
\* activity that will write it.
Executing == {"log", "register", "parked", "unwait", "record", "idle"}

Visible(s) == s \in index /\ IsLive(redis[s])

VisibleInv ==
    \A s \in Sessions \ touched : ~flushed =>
        /\ wf[s].pc \in Executing => Visible(s)
        /\ buf[s].op \in Executing => IsLive(buf[s].rec)

\* A delivery past its claim has used it up.
Claimants(m) == {d \in Deliveries : MsgOf[d] = m /\ At(d, "start")}

ClaimsInv ==
    \A m \in Messages :
        starts[m] + Cardinality(Claimants(m)) <= (IF m \in claimed THEN 1 ELSE 0) + outages

JourneyTypes == StoreTypes /\ WorkflowTypes /\ ClaimTypes /\ MarkTypes /\ JobTypes

JourneyInv ==
    JourneyTypes /\ ActivityInv /\ JobsInv /\ StartsAlone /\ VisibleInv /\ ClaimsInv

-------------------------------------------------------------------------------
(* Journeys: records.                                                        *)

LEMMA RecordIs ==
    ASSUME NEW r
    PROVE  /\ r \in Records <=> IsRecord(r)
           /\ r \in Records =>
                /\ r \in [status : Statuses \cup {"none"}, wait : {0} \cup Nodes, wf : BOOLEAN]
                /\ r # None => r.status \in Statuses
                /\ r.status = "waiting" => r.wait \in Nodes
  BY DEF Records, IsRecord

LEMMA NoneIs == None \in Records /\ ~IsLive(None) /\ None.status \notin Statuses
  BY DEF Records, IsRecord, None, IsLive, Statuses

LEMMA FlowStays ==
    ASSUME flow' = flow
    PROVE  /\ Nodes' = Nodes /\ Records' = Records /\ Jobs' = Jobs
           /\ Workflows' = Workflows /\ Copies' = Copies
  <1>1. Nodes' = Nodes
    BY DEF Nodes, NodesOf
  <1>2. Records' = Records
    BY <1>1 DEF Records, IsRecord
  <1>3. QED
    BY <1>1, <1>2 DEF Jobs, Workflows, Copies

LEMMA NodesAre ==
    ASSUME flow \in Flows
    PROVE  1 \in Nodes /\ \A n \in Nodes : flow.succ[n] \subseteq Nodes
  BY FlowsAssumption DEF Nodes, NodesOf

\* A record whose status is changed.
LEMMA StatusSet ==
    ASSUME NEW r \in Records, NEW st \in Statuses \ {"waiting"}, NEW b \in BOOLEAN
    PROVE  /\ [r EXCEPT !.status = st] \in Records
           /\ [r EXCEPT !.status = st, !.wf = b] \in Records
           /\ [r EXCEPT !.status = st].status = st
           /\ [r EXCEPT !.status = st, !.wf = b].status = st
  BY DEF Records, IsRecord, Statuses

LEMMA PatchedIs ==
    ASSUME NEW op \in Ops, NEW r \in Records, NEW n \in Nodes
    PROVE  /\ Patched(op, r, n) \in Records
           /\ op = "enter" => IsLive(Patched(op, r, n))
           /\ op \in Executing /\ IsLive(r) => IsLive(Patched(op, r, n))
  <1>1. /\ r \in [status : Statuses \cup {"none"}, wait : {0} \cup Nodes, wf : BOOLEAN]
        /\ r.status = "none" => r = None
        /\ r.status = "waiting" => r.wait \in Nodes
    BY DEF Records, IsRecord
  <1>2. CASE op = "enter"
    <2>1. Patched(op, r, n) = [r EXCEPT !.status = "active", !.wf = TRUE]
      BY <1>2 DEF Patched
    <2>2. QED
      BY <1>1, <1>2, <2>1 DEF Records, IsRecord, Statuses, IsLive, Executing
  <1>3. CASE op = "register"
    <2>1. Patched(op, r, n) = [r EXCEPT !.status = "waiting", !.wait = n]
      BY <1>3 DEF Patched
    <2>2. QED
      BY <1>1, <1>3, <2>1 DEF Records, IsRecord, Statuses, IsLive
  <1>4. CASE op \in {"unwait", "finish", "fail"}
    <2>1. PICK st \in {"active", "completed", "failed"} :
            /\ Patched(op, r, n) = [r EXCEPT !.status = st]
            /\ op = "unwait" => st = "active"
      BY <1>4 DEF Patched
    <2>2. QED
      BY <1>4, <2>1, StatusSet DEF Statuses, IsLive, Executing
  <1>5. CASE op \in {"log", "record"}
    <2>1. Patched(op, r, n) = r
      BY <1>5 DEF Patched
    <2>2. QED
      BY <1>5, <2>1
  <1>6. QED
    BY <1>2, <1>3, <1>4, <1>5 DEF Ops

-------------------------------------------------------------------------------
(* Journeys: the store.                                                      *)

StoreKeeps(S) ==
    /\ StoreTypes'
    /\ \A s \in S : Visible(s) => Visible(s)'

LEMMA SeenIs ==
    ASSUME StoreTypes, NEW s \in Sessions
    PROVE  Seen(s) \in Records /\ (IsLive(redis[s]) => Seen(s) = redis[s])
  BY NoneIs DEF StoreTypes, Seen

LEMMA StoreIdle ==
    ASSUME StoreTypes, flow' = flow, UNCHANGED storeVars
    PROVE  StoreKeeps(Sessions)
  BY FlowStays DEF StoreTypes, StoreKeeps, storeVars, Visible, IsLive

LEMMA ReadThroughKeeps ==
    ASSUME StoreTypes, flow' = flow, NEW s \in Sessions, ReadThrough(s)
    PROVE  StoreKeeps(Sessions)
  <1>1. /\ redis' = [redis EXCEPT ![s] = Seen(s)] /\ index' = index /\ rows' = rows
        /\ Seen(s) \in Records /\ (IsLive(redis[s]) => Seen(s) = redis[s])
    BY SeenIs DEF ReadThrough
  <1>2. redis' \in [Sessions -> Records]
    BY <1>1 DEF StoreTypes
  <1>3. \A t \in Sessions : IsLive(redis[t]) => redis'[t] = redis[t]
    BY <1>1 DEF StoreTypes
  <1>4. QED
    BY <1>1, <1>2, <1>3, FlowStays DEF StoreTypes, StoreKeeps, Visible, IsLive

LEMMA ReadAllKeeps ==
    ASSUME StoreTypes, flow' = flow, ReadAll
    PROVE  StoreKeeps(Sessions) /\ Listed \subseteq Sessions
  <1>1. /\ redis' = [id \in Sessions |-> IF id \in Listed THEN Seen(id) ELSE redis[id]]
        /\ index' = Listed /\ rows' = rows
    BY DEF ReadAll
  <1>2. Listed \subseteq Sessions /\ \A s \in index : s \in Listed
    BY DEF Listed, StoreTypes
  <1>3. redis' \in [Sessions -> Records]
    BY <1>1, SeenIs DEF StoreTypes
  <1>4. \A t \in Sessions : IsLive(redis[t]) => redis'[t] = redis[t]
    BY <1>1, SeenIs
  <1>5. QED
    BY <1>1, <1>2, <1>3, <1>4, FlowStays DEF StoreTypes, StoreKeeps, Visible, IsLive

LEMMA PutStores ==
    ASSUME StoreTypes, flow' = flow, NEW s \in Sessions, NEW r \in Records, Put(s, r)
    PROVE  StoreKeeps(Sessions \ {s}) /\ (IsLive(r) => Visible(s)')
  <1>1. /\ redis' = [redis EXCEPT ![s] = r] /\ index' = index \cup {s}
        /\ rows' = [rows EXCEPT ![s] = r]
    BY DEF Put
  <1>2. redis' \in [Sessions -> Records] /\ rows' \in [Sessions -> Records]
    BY <1>1 DEF StoreTypes
  <1>3. redis'[s] = r /\ \A t \in Sessions \ {s} : redis'[t] = redis[t]
    BY <1>1 DEF StoreTypes
  <1>4. QED
    BY <1>1, <1>2, <1>3, FlowStays DEF StoreTypes, StoreKeeps, Visible, IsLive

LEMMA UpdateRowKeeps ==
    ASSUME StoreTypes, flow' = flow, NEW s \in Sessions, NEW r, rows[s] # None => r \in Records,
           UpdateRow(s, r)
    PROVE  StoreKeeps(Sessions)
  <1>1. /\ rows' = IF rows[s] = None THEN rows ELSE [rows EXCEPT ![s] = r]
        /\ redis' = redis /\ index' = index
    BY DEF UpdateRow
  <1>2. rows' \in [Sessions -> Records]
    BY <1>1 DEF StoreTypes
  <1>3. QED
    BY <1>1, <1>2, FlowStays DEF StoreTypes, StoreKeeps, Visible, IsLive

LEMMA InvalidateKeeps ==
    ASSUME StoreTypes, flow' = flow, NEW s \in Sessions, Invalidate(s)
    PROVE  StoreKeeps(Sessions \ {s})
  <1>1. redis' = [redis EXCEPT ![s] = None] /\ index' = index \ {s} /\ rows' = rows
    BY DEF Invalidate
  <1>2. redis' \in [Sessions -> Records] /\ \A t \in Sessions \ {s} : redis'[t] = redis[t]
    BY <1>1, NoneIs DEF StoreTypes
  <1>3. QED
    BY <1>1, <1>2, FlowStays DEF StoreTypes, StoreKeeps, Visible, IsLive

-------------------------------------------------------------------------------
(* Journeys: jobs and claims.                                                *)

LEMMA JobsIdle ==
    ASSUME JobTypes, JobsInv, StartsAlone, flow' = flow, job' = job, touched \subseteq touched',
           \A s \in Sessions : Started(s)' <=> Started(s)
    PROVE  JobTypes' /\ JobsInv' /\ StartsAlone'
  <1>1. JobTypes'
    BY FlowStays DEF JobTypes
  <1>2. ASSUME NEW b \in Actors PROVE JobOK(b)'
    <2>1. JobOK(b) /\ job[b].id \in Sessions \cup {Nobody}
      BY DEF JobsInv, JobTypes, Jobs
    <2>2. QED
      BY <2>1 DEF JobOK
  <1>3. StartsAlone'
    BY DEF StartsAlone, AtStart
  <1>4. QED
    BY <1>1, <1>2, <1>3 DEF JobsInv

LEMMA JobsMove ==
    ASSUME JobTypes, JobsInv, StartsAlone, flow' = flow, touched \subseteq touched',
           \A s \in Sessions : Started(s)' <=> Started(s),
           NEW a \in Actors, NEW j \in Jobs, job' = [job EXCEPT ![a] = j], JobOK(a)',
           j.pc = "start" => \A b \in Actors \ {a} : ~(job[b].pc = "start" /\ job[b].id = j.id)
                             \/ j.id = Nobody
    PROVE  JobTypes' /\ JobsInv' /\ StartsAlone'
  <1>1. JobTypes'
    BY FlowStays DEF JobTypes
  <1>2. job'[a] = j /\ \A b \in Actors \ {a} : job'[b] = job[b]
    BY DEF JobTypes
  <1>3. ASSUME NEW b \in Actors \ {a} PROVE JobOK(b)'
    <2>1. JobOK(b) /\ job[b].id \in Sessions \cup {Nobody} /\ job'[b] = job[b]
      BY <1>2 DEF JobsInv, JobTypes, Jobs
    <2>2. QED
      BY <2>1 DEF JobOK
  <1>4. StartsAlone'
    <2>1. ASSUME NEW b \in Actors, NEW c \in Actors, NEW s \in Sessions,
                 AtStart(b, s)', AtStart(c, s)'
          PROVE  b = c
      <3>1. s # Nobody
        BY ActorsAssumption
      <3>2. CASE b # a /\ c # a
        BY <1>2, <2>1, <3>2 DEF StartsAlone, AtStart
      <3>3. CASE b = a /\ c # a
        BY <1>2, <2>1, <3>1, <3>3 DEF AtStart
      <3>4. CASE b # a /\ c = a
        BY <1>2, <2>1, <3>1, <3>4 DEF AtStart
      <3>5. QED
        BY <3>2, <3>3, <3>4
    <2>2. QED
      BY <2>1 DEF StartsAlone
  <1>5. QED
    BY <1>1, <1>3, <1>4 DEF JobsInv

LEMMA ClaimantsAre ==
    ASSUME NEW m
    PROVE  IsFiniteSet(Claimants(m)) /\ Cardinality(Claimants(m)) \in Nat
  <1>1. Claimants(m) \subseteq Deliveries /\ IsFiniteSet(Deliveries)
    BY ActorsAssumption DEF Claimants
  <1>2. QED
    BY <1>1, FS_Subset, FS_CardinalityType

LEMMA ClaimsStay ==
    ASSUME ClaimTypes, ClaimsInv, KeepClaims,
           \A d \in Deliveries : At(d, "start")' => At(d, "start")
    PROVE  ClaimTypes' /\ ClaimsInv'
  <1>1. claimed' = claimed /\ starts' = starts /\ outages' = outages
    BY DEF KeepClaims
  <1>2. ASSUME NEW m \in Messages
        PROVE  starts'[m] + Cardinality(Claimants(m)')
                 <= (IF m \in claimed' THEN 1 ELSE 0) + outages'
    <2>1. PICK before, after : before = Claimants(m) /\ after = Claimants(m)'
      OBVIOUS
    <2>2. IsFiniteSet(before) /\ Cardinality(before) \in Nat /\ after \subseteq before
      BY <2>1, ClaimantsAre DEF Claimants
    <2>3. Cardinality(after) \in Nat /\ Cardinality(after) <= Cardinality(before)
      BY <2>2, FS_Subset, FS_CardinalityType
    <2>4. starts[m] + Cardinality(before) <= (IF m \in claimed THEN 1 ELSE 0) + outages
      BY <2>1 DEF ClaimsInv
    <2>5. starts[m] \in Nat /\ outages \in Nat
      BY DEF ClaimTypes
    <2>6. QED
      BY <1>1, <2>1, <2>2, <2>3, <2>4, <2>5
  <1>3. ClaimsInv'
    BY <1>2 DEF ClaimsInv
  <1>4. QED
    BY <1>1, <1>3 DEF ClaimTypes

\* What a delivery or a request does to a workflow: a signal, or its end.
OutsideMoves ==
    /\ WorkflowTypes'
    /\ flow' = flow /\ buf' = buf
    /\ \A s \in Sessions :
        wf'[s].pc = wf[s].pc \/ (wf'[s].pc = "killed" /\ wf[s].pc # "none")

LEMMA OutsideIdle == ASSUME WorkflowTypes, UNCHANGED workflowVars PROVE OutsideMoves
  <1>1. flow' = flow /\ wf' = wf /\ buf' = buf
    BY DEF workflowVars
  <1>2. QED
    BY <1>1, FlowStays DEF WorkflowTypes, OutsideMoves

LEMMA StartedStays ==
    ASSUME OutsideMoves, NEW s \in Sessions
    PROVE  Started(s)' <=> Started(s)
  BY DEF OutsideMoves, Started

LEMMA ActorKeeps ==
    ASSUME JourneyInv, OutsideMoves, StoreTypes', MarkTypes', KeepClaims,
           touched \subseteq touched', flushed' = flushed,
           \A s \in Sessions \ touched' : wf[s].pc \in Executing /\ Visible(s) => Visible(s)',
           NEW a \in Actors, NEW j \in Jobs, job' = [job EXCEPT ![a] = j], JobOK(a)',
           j.pc = "start" => /\ a \notin Deliveries
                             /\ \A b \in Actors \ {a} : ~(job[b].pc = "start" /\ job[b].id = j.id)
    PROVE  JourneyInv'
  <1>1. /\ JobTypes' /\ JobsInv' /\ StartsAlone'
    BY StartedStays, JobsMove DEF JourneyInv, JourneyTypes, OutsideMoves
  <1>2. \A d \in Deliveries : At(d, "start")' => At(d, "start")
    BY DEF JourneyInv, JourneyTypes, JobTypes, At, Actors
  <1>3. ClaimTypes' /\ ClaimsInv'
    BY <1>2, ClaimsStay DEF JourneyInv, JourneyTypes
  <1>4. ActivityInv'
    BY DEF JourneyInv, ActivityInv, OutsideMoves
  <1>5. VisibleInv'
    <2>1. ASSUME NEW s \in Sessions \ touched', ~flushed'
          PROVE  /\ wf'[s].pc \in Executing => Visible(s)'
                 /\ buf'[s].op \in Executing => IsLive(buf'[s].rec)
      <3>1. /\ wf[s].pc \in Executing => Visible(s)
            /\ buf[s].op \in Executing => IsLive(buf[s].rec)
        BY <2>1 DEF JourneyInv, VisibleInv
      <3>2. wf'[s].pc \in Executing => wf[s].pc \in Executing
        BY DEF OutsideMoves, Executing
      <3>3. QED
        BY <3>1, <3>2 DEF OutsideMoves
    <2>2. QED
      BY <2>1 DEF VisibleInv, IsLive
  <1>6. QED
    BY <1>1, <1>3, <1>4, <1>5 DEF JourneyInv, JourneyTypes, OutsideMoves

-------------------------------------------------------------------------------
(* Journeys: what deliveries and requests do.                                *)

LEMMA SignalMoves ==
    ASSUME WorkflowTypes, flow' = flow, buf' = buf, NEW s \in Sessions
    PROVE  /\ \A n \in Nodes : CompleteWait(s, n) => OutsideMoves
           /\ CancelSignal(s) => OutsideMoves
           /\ Terminate(s) /\ Started(s) => OutsideMoves
           /\ wf' = wf => OutsideMoves
  <1>1. /\ wf \in [Sessions -> Workflows]
        /\ wf[s] \in Workflows
    BY DEF WorkflowTypes
  <1>2. ASSUME NEW w \in Workflows,
               wf' = [wf EXCEPT ![s] = w],
               w.pc = wf[s].pc \/ (w.pc = "killed" /\ wf[s].pc # "none")
        PROVE  OutsideMoves
    <2>1. WorkflowTypes'
      BY <1>1, <1>2, FlowStays DEF WorkflowTypes
    <2>2. QED
      BY <1>1, <1>2, <2>1 DEF OutsideMoves
  <1>3. ASSUME NEW n \in Nodes, CompleteWait(s, n) PROVE OutsideMoves
    <2>1. wf' = [wf EXCEPT ![s] = [wf[s] EXCEPT !.done = @ \cup {n}]]
      BY <1>3 DEF CompleteWait, Signalled
    <2>2. [wf[s] EXCEPT !.done = @ \cup {n}] \in Workflows
          /\ [wf[s] EXCEPT !.done = @ \cup {n}].pc = wf[s].pc
      BY <1>1 DEF Workflows
    <2>3. QED
      BY <1>2, <2>1, <2>2
  <1>4. ASSUME CancelSignal(s) PROVE OutsideMoves
    <2>1. wf' = [wf EXCEPT ![s] = [wf[s] EXCEPT !.status = "failed"]]
      BY <1>4 DEF CancelSignal, Signalled
    <2>2. [wf[s] EXCEPT !.status = "failed"] \in Workflows
          /\ [wf[s] EXCEPT !.status = "failed"].pc = wf[s].pc
      BY <1>1 DEF Workflows
    <2>3. QED
      BY <1>2, <2>1, <2>2
  <1>5. ASSUME Terminate(s), Started(s) PROVE OutsideMoves
    <2>1. wf' = [wf EXCEPT ![s] = [wf[s] EXCEPT !.pc = "killed"]]
      BY <1>1, <1>5 DEF Terminate
    <2>2. [wf[s] EXCEPT !.pc = "killed"] \in Workflows
          /\ [wf[s] EXCEPT !.pc = "killed"].pc = "killed"
      BY <1>1 DEF Workflows, PCs, Over
    <2>3. wf[s].pc # "none"
      BY <1>5 DEF Started
    <2>4. QED
      BY <1>2, <2>1, <2>2, <2>3
  <1>6. wf' = wf => OutsideMoves
    BY OutsideIdle DEF workflowVars
  <1>7. QED
    BY <1>3, <1>4, <1>5, <1>6

LEMMA MarksStay ==
    ASSUME MarkTypes, KeepRest
    PROVE  MarkTypes' /\ touched' = touched /\ flushed' = flushed
  BY DEF MarkTypes, KeepRest

LEMMA JobIs ==
    ASSUME JobTypes, NEW a \in Actors
    PROVE  /\ job[a] \in Jobs
           /\ job[a].id \in Sessions \cup {Nobody} /\ job[a].todo \subseteq Sessions \X Nodes
           /\ job[a].rec \in Records
           /\ job[a].to \in Statuses \cup {"none"} /\ job[a].then \in {"done", "resume"}
  BY DEF JobTypes, Jobs

LEMMA NoJobIs ==
    ASSUME NEW p \in JobPCs
    PROVE  /\ [NoJob EXCEPT !.pc = p] \in Jobs
           /\ [NoJob EXCEPT !.pc = p].pc = p /\ [NoJob EXCEPT !.pc = p].id = Nobody
  BY NoneIs DEF NoJob, Jobs

\* A delivery or a request that leaves workflows alone, or signals one.
LEMMA StepKeeps ==
    ASSUME JourneyInv, OutsideMoves, StoreTypes', KeepRest, KeepClaims,
           \A s \in Sessions \ touched : wf[s].pc \in Executing /\ Visible(s) => Visible(s)',
           NEW a \in Actors, NEW j \in Jobs, job' = [job EXCEPT ![a] = j], JobOK(a)',
           j.pc # "start"
    PROVE  JourneyInv'
  BY MarksStay, ActorKeeps DEF JourneyInv, JourneyTypes

LEMMA TakeKeeps == ASSUME JourneyInv, NEW d \in Deliveries, Take(d) PROVE JourneyInv'
  <1>1. JourneyTypes /\ JobOK(d) /\ d \in Actors /\ job[d].pc = "idle"
    BY DEF JourneyInv, JobsInv, Actors, Take, At
  <1>2. flow' = flow /\ OutsideMoves /\ KeepRest /\ KeepClaims
    BY <1>1, OutsideIdle DEF Take, JourneyTypes, workflowVars
  <1>3. StoreKeeps(Sessions) /\ Listed \subseteq Sessions
    BY <1>1, <1>2, ReadAllKeeps DEF Take, JourneyTypes
  <1>4. PICK p \in {"guard", "resume"}, todo \in SUBSET (Sessions \X Nodes) :
            job' = [job EXCEPT ![d] = [job[d] EXCEPT !.pc = p, !.todo = todo]]
    <2> DEFINE waits == {s \in Listed : /\ Seen(s).status = "waiting"
                                        /\ flow.kind[Seen(s).wait] # "time"}
               next == IF waits = {} THEN "guard" ELSE "resume"
               found == {<<s, Seen(s).wait>> : s \in waits}
    <2>1. job' = [job EXCEPT ![d] = [job[d] EXCEPT !.pc = next, !.todo = found]]
      BY DEF Take, TurnsTo
    <2>2. ASSUME NEW s \in waits PROVE s \in Sessions /\ Seen(s).wait \in Nodes
      BY <1>1, <1>3, SeenIs, RecordIs DEF JourneyTypes
    <2>3. found \in SUBSET (Sessions \X Nodes)
      BY <2>2
    <2>4. next \in {"guard", "resume"}
      OBVIOUS
    <2> HIDE DEF next, found
    <2>5. QED
      BY <2>1, <2>3, <2>4
  <1>5. PICK j \in Jobs : /\ job' = [job EXCEPT ![d] = j] /\ j.pc = p /\ j.id = Nobody
    <2>1. job[d] \in Jobs /\ job[d].id = Nobody
      BY <1>1, JobIs DEF JourneyTypes, JobOK
    <2>2. [job[d] EXCEPT !.pc = p, !.todo = todo] \in Jobs
      BY <2>1 DEF Jobs, JobPCs
    <2>3. QED
      BY <1>4, <2>1, <2>2 DEF Jobs
  <1>6. JobOK(d)'
    BY <1>1, <1>5 DEF JobOK, JourneyTypes, JobTypes
  <1>7. QED
    BY <1>1, <1>2, <1>3, <1>5, <1>6, StepKeeps DEF StoreKeeps

LEMMA ResumeWaitKeeps == ASSUME JourneyInv, NEW d \in Deliveries, ResumeWait(d) PROVE JourneyInv'
  <1>1. JourneyTypes /\ JobOK(d) /\ d \in Actors /\ job[d].pc = "resume" /\ job[d] \in Jobs
    BY JobIs DEF JourneyInv, JobsInv, Actors, ResumeWait, At, JourneyTypes
  <1>2. flow' = flow /\ buf' = buf /\ KeepRest /\ KeepClaims /\ UNCHANGED storeVars
    BY DEF ResumeWait
  <1>3. StoreKeeps(Sessions)
    BY <1>1, <1>2, StoreIdle DEF JourneyTypes
  <1>4. PICK w \in job[d].todo :
        \/ /\ CompleteWait(w[1], w[2])
           /\ job' = [job EXCEPT ![d] = [job[d] EXCEPT !.pc = "complete", !.id = w[1],
                                                       !.todo = @ \ {w}]]
        \/ /\ job' = [job EXCEPT ![d] = [job[d] EXCEPT !.todo = {}]]
           /\ wf' = wf
    BY DEF ResumeWait, TurnsTo
  <1>5. w[1] \in Sessions /\ w[2] \in Nodes /\ job[d].todo \ {w} \in SUBSET (Sessions \X Nodes)
    BY <1>1 DEF Jobs
  <1>6. OutsideMoves
    BY <1>1, <1>2, <1>4, <1>5, SignalMoves DEF JourneyTypes
  <1>7. PICK j \in Jobs : /\ job' = [job EXCEPT ![d] = j]
                          /\ j.pc = "resume" \/ (j.pc = "complete" /\ j.id \in Sessions)
    <2>1. CASE job' = [job EXCEPT ![d] = [job[d] EXCEPT !.todo = {}]]
      <3>1. [job[d] EXCEPT !.todo = {}] \in Jobs /\ [job[d] EXCEPT !.todo = {}].pc = "resume"
        BY <1>1 DEF Jobs
      <3>2. QED
        BY <2>1, <3>1
    <2>2. CASE job' = [job EXCEPT ![d] = [job[d] EXCEPT !.pc = "complete", !.id = w[1],
                                                        !.todo = @ \ {w}]]
      <3> DEFINE k == [job[d] EXCEPT !.pc = "complete", !.id = w[1], !.todo = @ \ {w}]
      <3>1. k \in Jobs /\ k.pc = "complete" /\ k.id \in Sessions
        BY <1>1, <1>5 DEF Jobs, JobPCs
      <3>2. QED
        BY <2>2, <3>1
    <2>3. QED
      BY <1>4, <2>1, <2>2
  <1>8. JobOK(d)'
    BY <1>1, <1>7 DEF JobOK, JourneyTypes, JobTypes
  <1>9. QED
    BY <1>1, <1>2, <1>3, <1>6, <1>7, <1>8, StepKeeps DEF StoreKeeps

\* Where updateSessionStatus begins.
LEMMA UpdateBegins ==
    ASSUME JobTypes, NEW a \in Actors, NEW id \in Sessions, NEW to \in Statuses,
           NEW then \in {"done", "resume"}, Update(a, id, to, then)
    PROVE  \E j \in Jobs : /\ job' = [job EXCEPT ![a] = j] /\ job'[a] = j
                           /\ j.pc = "read" /\ j.id = id /\ j.to = to
  <1> DEFINE j == [job[a] EXCEPT !.pc = "read", !.id = id, !.to = to, !.then = then]
  <1>1. j \in Jobs /\ j.pc = "read" /\ j.id = id /\ j.to = to
    BY JobIs DEF Jobs, JobPCs
  <1>2. job' = [job EXCEPT ![a] = j]
    BY DEF Update, TurnsTo
  <1>3. QED
    BY <1>1, <1>2 DEF JobTypes

\* Where a job goes that keeps all but its program counter, or ends.
LEMMA GotoIs ==
    ASSUME JobTypes, NEW a \in Actors, NEW p \in JobPCs
    PROVE  /\ GotoPc(a, p) => \E j \in Jobs : /\ job' = [job EXCEPT ![a] = j] /\ job'[a] = j
                                              /\ j.pc = p /\ j.id = job[a].id
           /\ Done(a) => \E j \in Jobs : /\ job' = [job EXCEPT ![a] = j] /\ job'[a] = j
                                         /\ j.pc = "done"
  <1>1. ASSUME GotoPc(a, p)
        PROVE  \E j \in Jobs : /\ job' = [job EXCEPT ![a] = j] /\ job'[a] = j
                               /\ j.pc = p /\ j.id = job[a].id
    <2>1. job' = [job EXCEPT ![a] = [job[a] EXCEPT !.pc = p]]
      BY <1>1 DEF GotoPc, JobTypes
    <2>2. [job[a] EXCEPT !.pc = p] \in Jobs /\ [job[a] EXCEPT !.pc = p].pc = p
          /\ [job[a] EXCEPT !.pc = p].id = job[a].id
      BY JobIs DEF Jobs
    <2>3. QED
      BY <2>1, <2>2 DEF JobTypes
  <1>2. ASSUME Done(a)
        PROVE  \E j \in Jobs : /\ job' = [job EXCEPT ![a] = j] /\ job'[a] = j /\ j.pc = "done"
    BY <1>2, NoJobIs DEF Done, JobTypes, JobPCs
  <1>3. QED
    BY <1>1, <1>2

LEMMA CompleteKeeps == ASSUME JourneyInv, NEW d \in Deliveries, Complete(d) PROVE JourneyInv'
  <1>1. JourneyTypes /\ JobOK(d) /\ d \in Actors /\ job[d].pc = "complete" /\ job[d] \in Jobs
        /\ job[d].id \in Sessions
    BY JobIs DEF JourneyInv, JobsInv, Actors, Complete, At, JourneyTypes, JobOK
  <1>2. flow' = flow /\ OutsideMoves /\ KeepRest /\ KeepClaims
    BY <1>1, OutsideIdle DEF Complete, JourneyTypes, workflowVars
  <1>3. CASE /\ UpdateRow(job[d].id, [rows[job[d].id] EXCEPT !.status = "active"])
             /\ Update(d, job[d].id, "active", "resume")
    <2>1. [rows[job[d].id] EXCEPT !.status = "active"] \in Records
      BY <1>1, StatusSet DEF JourneyTypes, StoreTypes, Statuses
    <2>2. StoreKeeps(Sessions)
      BY <1>1, <1>2, <1>3, <2>1, UpdateRowKeeps DEF JourneyTypes
    <2>3. PICK j \in Jobs : /\ job' = [job EXCEPT ![d] = j] /\ job'[d] = j
                            /\ j.pc = "read" /\ j.id = job[d].id /\ j.to = "active"
      BY <1>1, <1>3, UpdateBegins DEF JourneyTypes, Statuses
    <2>4. JobOK(d)'
      BY <1>1, <2>3 DEF JobOK
    <2>5. QED
      BY <1>1, <1>2, <2>2, <2>3, <2>4, StepKeeps DEF StoreKeeps
  <1>4. CASE /\ TurnsTo(d, [job[d] EXCEPT !.pc = "resume", !.id = Nobody, !.todo = {}])
             /\ UNCHANGED storeVars
    <2>1. StoreKeeps(Sessions)
      BY <1>1, <1>2, <1>4, StoreIdle DEF JourneyTypes
    <2>2. PICK j \in Jobs : job' = [job EXCEPT ![d] = j] /\ job'[d] = j /\ j.pc = "resume"
      <3> DEFINE k == [job[d] EXCEPT !.pc = "resume", !.id = Nobody, !.todo = {}]
      <3>1. k \in Jobs /\ k.pc = "resume"
        BY <1>1 DEF Jobs, JobPCs
      <3>2. QED
        BY <1>1, <1>4, <3>1 DEF TurnsTo, JourneyTypes, JobTypes
    <2>3. JobOK(d)'
      BY <2>2 DEF JobOK
    <2>4. QED
      BY <1>1, <1>2, <2>1, <2>2, <2>3, StepKeeps DEF StoreKeeps
  <1>5. QED
    BY <1>3, <1>4 DEF Complete

LEMMA MatchedKeeps == ASSUME JourneyInv, NEW d \in Deliveries, Matched(d) PROVE JourneyInv'
  <1>1. JourneyTypes /\ d \in Actors
    BY DEF JourneyInv, Actors
  <1>2. flow' = flow /\ OutsideMoves /\ KeepRest /\ KeepClaims /\ StoreKeeps(Sessions)
    BY <1>1, OutsideIdle, StoreIdle DEF Matched, JourneyTypes, workflowVars
  <1>3. PICK j \in Jobs : /\ job' = [job EXCEPT ![d] = j] /\ job'[d] = j
                          /\ j.pc = "guard" /\ j.id = Nobody
    BY <1>1, NoJobIs DEF Matched, TurnsTo, JourneyTypes, JobTypes, JobPCs
  <1>4. JobOK(d)'
    BY <1>3 DEF JobOK
  <1>5. QED
    BY <1>1, <1>2, <1>3, <1>4, StepKeeps DEF StoreKeeps

LEMMA GuardKeeps == ASSUME JourneyInv, NEW a \in Actors, Guard(a) PROVE JourneyInv'
  <1>1. JourneyTypes /\ job[a].pc = "guard" /\ job[a].id = Nobody
    BY DEF JourneyInv, JobsInv, Guard, At, JobOK
  <1>2. flow' = flow /\ OutsideMoves /\ KeepRest /\ KeepClaims
    BY <1>1, OutsideIdle DEF Guard, JourneyTypes, workflowVars
  <1>3. StoreKeeps(Sessions)
    BY <1>1, <1>2, ReadAllKeeps, StoreIdle DEF Guard, JourneyTypes
  <1>4. PICK p \in {"claim", "create"} :
            (GotoPc(a, p) /\ (p = "create" => a \notin Deliveries)) \/ Done(a)
    BY DEF Guard
  <1>5. PICK j \in Jobs : /\ job' = [job EXCEPT ![a] = j] /\ job'[a] = j
                          /\ \/ j.pc = "done"
                             \/ j.pc = "claim" /\ j.id = Nobody
                             \/ j.pc = "create" /\ j.id = Nobody /\ a \notin Deliveries
    BY <1>1, <1>4, GotoIs DEF JourneyTypes, JobPCs
  <1>6. JobOK(a)'
    BY <1>5 DEF JobOK
  <1>7. QED
    BY <1>1, <1>2, <1>3, <1>5, <1>6, StepKeeps DEF StoreKeeps

LEMMA CreateKeeps == ASSUME JourneyInv, NEW r \in Requests, CreateSession(r) PROVE JourneyInv'
  <1>1. JourneyTypes /\ JobOK(r) /\ r \in Actors /\ job[r].pc = "create" /\ job[r] \in Jobs
        /\ r \notin Deliveries
    BY JobIs DEF JourneyInv, JobsInv, Actors, CreateSession, At, JourneyTypes, JobOK
  <1>2. flow' = flow /\ OutsideMoves /\ KeepRest /\ KeepClaims
    BY <1>1, OutsideIdle DEF CreateSession, JourneyTypes, workflowVars
  <1>3. PICK s \in Fresh : /\ Put(s, [None EXCEPT !.status = "active"])
                           /\ job' = [job EXCEPT ![r] = [job[r] EXCEPT !.pc = "start", !.id = s]]
    BY DEF CreateSession, Drawn, TurnsTo
  <1>4. s \in Sessions /\ ~Started(s) /\ \A b \in Actors : job[b].id # s
    BY <1>3 DEF Fresh
  <1>5. [None EXCEPT !.status = "active"] \in Records
    BY NoneIs, StatusSet DEF Statuses
  <1>6. StoreKeeps(Sessions \ {s})
    BY <1>1, <1>2, <1>3, <1>4, <1>5, PutStores DEF JourneyTypes
  <1>7. wf[s].pc \notin Executing
    BY <1>4 DEF Started, Executing
  <1>8. PICK j \in Jobs : /\ job' = [job EXCEPT ![r] = j] /\ job'[r] = j
                          /\ j.pc = "start" /\ j.id = s
    <2> DEFINE k == [job[r] EXCEPT !.pc = "start", !.id = s]
    <2>1. k \in Jobs /\ k.pc = "start" /\ k.id = s
      BY <1>1, <1>4 DEF Jobs, JobPCs
    <2>2. QED
      BY <1>1, <1>3, <2>1 DEF JourneyTypes, JobTypes
  <1>9. JobOK(r)'
    <2>1. ~Started(s)'
      BY <1>2, <1>4, StartedStays
    <2>2. QED
      BY <1>8, <2>1 DEF JobOK
  <1>10. MarkTypes' /\ touched' = touched /\ flushed' = flushed
    BY <1>1, <1>2, MarksStay DEF JourneyTypes
  <1>11. QED
    BY <1>1, <1>2, <1>4, <1>6, <1>7, <1>8, <1>9, <1>10, ActorKeeps DEF StoreKeeps

LEMMA StartFailsKeeps == ASSUME JourneyInv, NEW a \in Actors, StartFails(a) PROVE JourneyInv'
  <1>1. JourneyTypes /\ JobOK(a) /\ job[a].pc = "start" /\ job[a].id \in Sessions \cup {Nobody}
    BY JobIs DEF JourneyInv, JobsInv, StartFails, At, JourneyTypes
  <1>2. flow' = flow /\ OutsideMoves /\ KeepRest /\ KeepClaims
    BY <1>1, OutsideIdle DEF StartFails, JourneyTypes, workflowVars
  <1>3. StoreTypes' /\ \A s \in Sessions : wf[s].pc \in Executing /\ Visible(s) => Visible(s)'
    <2>1. CASE job[a].id = Nobody
      <3>1. StoreKeeps(Sessions)
        BY <1>1, <1>2, <2>1, StoreIdle DEF StartFails, JourneyTypes
      <3>2. QED
        BY <3>1 DEF StoreKeeps
    <2>2. CASE job[a].id # Nobody
      <3>1. PICK id \in Sessions : id = job[a].id
        BY <1>1, <2>2
      <3>2. StoreKeeps(Sessions \ {id})
        BY <1>1, <1>2, <2>2, <3>1, InvalidateKeeps DEF StartFails, JourneyTypes
      <3>3. wf[id].pc \notin Executing
        BY <1>1, <2>2, <3>1 DEF JobOK, Started, Executing
      <3>4. QED
        BY <3>2, <3>3 DEF StoreKeeps
    <2>3. QED
      BY <2>1, <2>2
  <1>4. PICK j \in Jobs : job' = [job EXCEPT ![a] = j] /\ job'[a] = j /\ j.pc = "done"
    BY <1>1, GotoIs DEF StartFails, JourneyTypes, JobPCs
  <1>5. JobOK(a)'
    BY <1>4 DEF JobOK
  <1>6. QED
    BY <1>1, <1>2, <1>3, <1>4, <1>5, StepKeeps

LEMMA VerdictKeeps == ASSUME JourneyInv, NEW a \in Actors, Verdict(a) PROVE JourneyInv'
  <1>1. JourneyTypes /\ job[a].pc = "verdict"
    BY DEF JourneyInv, Verdict, At
  <1>2. PICK id \in Sessions : id = job[a].id /\ Started(id)
    BY <1>1 DEF JourneyInv, JobsInv, JobOK
  <1>3. /\ flow' = flow /\ buf' = buf /\ UNCHANGED storeVars /\ KeepTouched /\ KeepClaims
        /\ \/ wf' = wf /\ touched' = touched /\ Update(a, id, "active", "done")
           \/ /\ Terminate(id) \/ wf' = wf
              /\ touched' = touched \cup {id}
              /\ GotoPc(a, "failed") \/ Update(a, id, "failed", "done")
    BY <1>2 DEF Verdict
  <1>4. OutsideMoves
    BY <1>1, <1>2, <1>3, SignalMoves DEF JourneyTypes
  <1>5. StoreKeeps(Sessions)
    BY <1>1, <1>3, StoreIdle DEF JourneyTypes
  <1>6. MarkTypes' /\ touched \subseteq touched' /\ flushed' = flushed
    BY <1>1, <1>3 DEF JourneyTypes, MarkTypes, KeepTouched
  <1>7. PICK j \in Jobs :
            /\ job' = [job EXCEPT ![a] = j] /\ job'[a] = j /\ j.id = id
            /\ \/ j.pc = "read" /\ j.to = "active"
               \/ j.pc = "read" /\ j.to = "failed" /\ id \in touched'
               \/ j.pc = "failed" /\ id \in touched'
    <2>1. CASE Update(a, id, "active", "done")
      BY <1>1, <2>1, UpdateBegins DEF JourneyTypes, Statuses
    <2>2. CASE Update(a, id, "failed", "done") /\ id \in touched'
      BY <1>1, <2>2, UpdateBegins DEF JourneyTypes, Statuses
    <2>3. CASE GotoPc(a, "failed") /\ id \in touched'
      BY <1>1, <1>2, <2>3, GotoIs DEF JourneyTypes, JobPCs
    <2>4. QED
      BY <1>3, <2>1, <2>2, <2>3
  <1>8. JobOK(a)'
    BY <1>7 DEF JobOK
  <1>9. QED
    BY <1>3, <1>4, <1>5, <1>6, <1>7, <1>8, ActorKeeps DEF StoreKeeps

LEMMA FailDispatchKeeps ==
    ASSUME JourneyInv, NEW d \in Deliveries, FailDispatch(d)
    PROVE  JourneyInv'
  <1>1. JourneyTypes /\ d \in Actors /\ job[d].pc = "failed"
    BY DEF JourneyInv, Actors, FailDispatch, At
  <1>2. flow' = flow /\ OutsideMoves /\ KeepRest /\ KeepClaims
    BY <1>1, OutsideIdle DEF FailDispatch, JourneyTypes, workflowVars
  <1>3. PICK id \in Sessions : id = job[d].id /\ id \in touched
    BY <1>1 DEF JourneyInv, JobsInv, JobOK
  <1>4. [status |-> "failed", wait |-> 0, wf |-> TRUE] \in Records
    BY DEF Records, IsRecord, Statuses
  <1>5. StoreKeeps(Sessions \ {id})
    BY <1>1, <1>2, <1>3, <1>4, PutStores DEF FailDispatch, JourneyTypes
  <1>6. PICK j \in Jobs : job' = [job EXCEPT ![d] = j] /\ job'[d] = j /\ j.pc = "done"
    BY <1>1, GotoIs DEF FailDispatch, JourneyTypes, JobPCs
  <1>7. JobOK(d)'
    BY <1>6 DEF JobOK
  <1>8. QED
    BY <1>1, <1>2, <1>3, <1>5, <1>6, <1>7, StepKeeps DEF StoreKeeps

LEMMA ReadSessionKeeps == ASSUME JourneyInv, NEW a \in Actors, ReadSession(a) PROVE JourneyInv'
  <1>1. JourneyTypes /\ JobOK(a) /\ job[a].pc = "read" /\ job[a] \in Jobs
    BY JobIs DEF JourneyInv, JobsInv, ReadSession, At, JourneyTypes
  <1>2. flow' = flow /\ OutsideMoves /\ KeepRest /\ KeepClaims
    BY <1>1, OutsideIdle DEF ReadSession, JourneyTypes, workflowVars
  <1>3. PICK id \in Sessions : id = job[a].id
    BY <1>1 DEF JobOK
  <1>4. StoreKeeps(Sessions)
    BY <1>1, <1>2, <1>3, ReadThroughKeeps DEF ReadSession, JourneyTypes
  <1>5. PICK j \in Jobs :
            /\ job' = [job EXCEPT ![a] = j] /\ job'[a] = j
            /\ \/ j.pc \in {"done", "resume"}
               \/ j.pc = "write" /\ j.id = id /\ j.to = job[a].to
    <2>1. CASE GotoPc(a, job[a].then)
      <3>1. job[a].then \in {"done", "resume"}
        BY <1>1 DEF Jobs
      <3>2. QED
        BY <1>1, <2>1, <3>1, GotoIs DEF JourneyTypes, JobPCs
    <2>2. CASE TurnsTo(a, [job[a] EXCEPT !.pc = "write", !.rec = Seen(id)])
      <3> DEFINE k == [job[a] EXCEPT !.pc = "write", !.rec = Seen(id)]
      <3>1. Seen(id) \in Records
        BY <1>1, SeenIs DEF JourneyTypes
      <3>2. k \in Jobs /\ k.pc = "write" /\ k.id = id /\ k.to = job[a].to
        BY <1>1, <1>3, <3>1 DEF Jobs, JobPCs
      <3>3. QED
        BY <1>1, <2>2, <3>2 DEF TurnsTo, JourneyTypes, JobTypes
    <2>3. QED
      BY <1>3, <2>1, <2>2 DEF ReadSession
  <1>6. touched' = touched
    BY <1>2 DEF KeepRest
  <1>7. JobOK(a)'
    BY <1>1, <1>3, <1>5, <1>6 DEF JobOK
  <1>8. QED
    BY <1>1, <1>2, <1>4, <1>5, <1>7, StepKeeps DEF StoreKeeps

LEMMA WriteSessionKeeps == ASSUME JourneyInv, NEW a \in Actors, WriteSession(a) PROVE JourneyInv'
  <1>1. JourneyTypes /\ JobOK(a) /\ job[a].pc = "write" /\ job[a] \in Jobs
    BY JobIs DEF JourneyInv, JobsInv, WriteSession, At, JourneyTypes
  <1>2. flow' = flow /\ OutsideMoves /\ KeepRest /\ KeepClaims
    BY <1>1, OutsideIdle DEF WriteSession, JourneyTypes, workflowVars
  <1>3. PICK id \in Sessions, to \in Statuses \ {"waiting"}, rec \in Records :
            /\ id = job[a].id /\ to = job[a].to /\ rec = job[a].rec
            /\ to = "active" \/ id \in touched
    BY <1>1 DEF JobOK, Statuses, Jobs
  <1>4. PICK b \in BOOLEAN : Put(id, [rec EXCEPT !.status = to, !.wf = b])
    <2>1. rec.wf \in BOOLEAN
      BY RecordIs
    <2>2. QED
      BY <1>3, <2>1 DEF WriteSession
  <1>5. /\ StoreTypes'
        /\ \A s \in Sessions \ touched : Visible(s) => Visible(s)'
    <2>1. /\ [rec EXCEPT !.status = to, !.wf = b] \in Records
          /\ [rec EXCEPT !.status = to, !.wf = b].status = to
      BY StatusSet
    <2>2. StoreKeeps(Sessions \ {id}) /\ (to = "active" => Visible(id)')
      BY <1>1, <1>2, <1>4, <2>1, PutStores DEF JourneyTypes, IsLive
    <2>3. QED
      BY <1>3, <2>2 DEF StoreKeeps
  <1>6. PICK j \in Jobs : job' = [job EXCEPT ![a] = j] /\ job'[a] = j /\ j.pc \in {"done", "resume"}
    <2> DEFINE k == [job[a] EXCEPT !.pc = job[a].then, !.rec = None, !.id = Nobody]
    <2>1. k \in Jobs /\ k.pc \in {"done", "resume"}
      BY <1>1, NoneIs DEF Jobs, JobPCs
    <2>2. job' = [job EXCEPT ![a] = k]
      BY DEF WriteSession, TurnsTo
    <2>3. QED
      BY <1>1, <2>1, <2>2 DEF JourneyTypes, JobTypes
  <1>7. JobOK(a)'
    BY <1>6 DEF JobOK
  <1>8. QED
    BY <1>1, <1>2, <1>5, <1>6, <1>7, StepKeeps

-------------------------------------------------------------------------------
(* Journeys: the requests, a crash, the claim and the start.                 *)

LEMMA ManualKeeps == ASSUME JourneyInv, NEW r \in Requests, Manual(r) PROVE JourneyInv'
  <1>1. JourneyTypes /\ JobOK(r) /\ r \in Actors /\ job[r].pc = "idle"
    BY DEF JourneyInv, JobsInv, Actors, Manual, Request, At
  <1>2. flow' = flow /\ OutsideMoves /\ KeepRest /\ KeepClaims /\ StoreKeeps(Sessions)
    BY <1>1, OutsideIdle, StoreIdle DEF Manual, JourneyTypes, workflowVars
  <1>3. PICK j \in Jobs : /\ job' = [job EXCEPT ![r] = j] /\ job'[r] = j
                          /\ j.pc = "guard" /\ j.id = Nobody
    BY <1>1, GotoIs DEF Manual, JourneyTypes, JobPCs, JobOK
  <1>4. JobOK(r)'
    BY <1>3 DEF JobOK
  <1>5. QED
    BY <1>1, <1>2, <1>3, <1>4, StepKeeps DEF StoreKeeps

LEMMA OpenKeeps == ASSUME JourneyInv, NEW r \in Requests, Open(r) PROVE JourneyInv'
  <1>1. JourneyTypes /\ r \in Actors /\ job[r] \in Jobs /\ r \in {"cancel", "remove"}
    BY JobIs DEF JourneyInv, Actors, Open, JourneyTypes
  <1>2. flow' = flow /\ OutsideMoves /\ KeepTouched /\ KeepClaims
    BY <1>1, OutsideIdle DEF Open, JourneyTypes, workflowVars
  <1>3. PICK s \in Sessions :
            /\ ReadThrough(s)
            /\ job' = [job EXCEPT ![r] = [job[r] EXCEPT !.pc = r, !.id = s, !.rec = Seen(s)]]
            /\ touched' = touched \cup {s}
    BY DEF Open, TurnsTo
  <1>4. StoreKeeps(Sessions)
    BY <1>1, <1>2, <1>3, ReadThroughKeeps DEF JourneyTypes
  <1>5. MarkTypes' /\ touched \subseteq touched' /\ flushed' = flushed
    BY <1>1, <1>2, <1>3 DEF JourneyTypes, MarkTypes, KeepTouched
  <1>6. PICK j \in Jobs : /\ job' = [job EXCEPT ![r] = j] /\ job'[r] = j
                          /\ j.pc = r /\ j.id = s
    <2> DEFINE k == [job[r] EXCEPT !.pc = r, !.id = s, !.rec = Seen(s)]
    <2>1. Seen(s) \in Records
      BY <1>1, SeenIs DEF JourneyTypes
    <2>2. k \in Jobs /\ k.pc = r /\ k.id = s
      BY <1>1, <2>1 DEF Jobs, JobPCs
    <2>3. QED
      BY <1>1, <1>3, <2>2 DEF JourneyTypes, JobTypes
  <1>7. JobOK(r)'
    BY <1>1, <1>3, <1>6 DEF JobOK
  <1>8. QED
    BY <1>1, <1>2, <1>4, <1>5, <1>6, <1>7, ActorKeeps DEF StoreKeeps

LEMMA CancelKeeps == ASSUME JourneyInv, NEW r \in Requests, Cancel(r) PROVE JourneyInv'
  <1>1. JourneyTypes /\ r \in Actors /\ job[r].pc = "cancel"
    BY DEF JourneyInv, Actors, Cancel, At
  <1>2. PICK id \in Sessions : id = job[r].id /\ id \in touched
    BY <1>1 DEF JourneyInv, JobsInv, JobOK
  <1>3. /\ flow' = flow /\ buf' = buf /\ UNCHANGED storeVars /\ KeepRest /\ KeepClaims
        /\ CancelSignal(id) \/ wf' = wf
        /\ Update(r, id, "cancelled", "done") \/ Done(r)
    BY <1>2 DEF Cancel
  <1>4. OutsideMoves /\ StoreKeeps(Sessions)
    BY <1>1, <1>3, SignalMoves, StoreIdle DEF JourneyTypes
  <1>5. PICK j \in Jobs : /\ job' = [job EXCEPT ![r] = j] /\ job'[r] = j
                          /\ \/ j.pc = "done"
                             \/ j.pc = "read" /\ j.id = id /\ j.to = "cancelled"
    <2>1. CASE Update(r, id, "cancelled", "done")
      BY <1>1, <2>1, UpdateBegins DEF JourneyTypes, Statuses
    <2>2. CASE Done(r)
      BY <1>1, <2>2, GotoIs DEF JourneyTypes, JobPCs
    <2>3. QED
      BY <1>3, <2>1, <2>2
  <1>6. JobOK(r)'
    BY <1>2, <1>3, <1>5 DEF JobOK, KeepRest
  <1>7. QED
    BY <1>1, <1>3, <1>4, <1>5, <1>6, StepKeeps DEF StoreKeeps

LEMMA RemoveKeeps == ASSUME JourneyInv, NEW r \in Requests, Remove(r) PROVE JourneyInv'
  <1>1. JourneyTypes /\ r \in Actors /\ job[r].pc = "remove"
    BY DEF JourneyInv, Actors, Remove, At
  <1>2. PICK id \in Sessions : id = job[r].id /\ id \in touched
    BY <1>1 DEF JourneyInv, JobsInv, JobOK
  <1>3. /\ flow' = flow /\ buf' = buf /\ UNCHANGED storeVars /\ KeepRest /\ KeepClaims
        /\ (Running(id) /\ Terminate(id)) \/ wf' = wf
        /\ GotoPc(r, "drop")
    BY <1>2 DEF Remove
  <1>4. OutsideMoves /\ StoreKeeps(Sessions)
    BY <1>1, <1>3, SignalMoves, StoreIdle DEF JourneyTypes, Running, Started
  <1>5. PICK j \in Jobs : /\ job' = [job EXCEPT ![r] = j] /\ job'[r] = j
                          /\ j.pc = "drop" /\ j.id = id
    BY <1>1, <1>2, <1>3, GotoIs DEF JourneyTypes, JobPCs
  <1>6. JobOK(r)'
    BY <1>2, <1>3, <1>5 DEF JobOK, KeepRest
  <1>7. QED
    BY <1>1, <1>3, <1>4, <1>5, <1>6, StepKeeps DEF StoreKeeps

LEMMA DropKeeps == ASSUME JourneyInv, NEW r \in Requests, Drop(r) PROVE JourneyInv'
  <1>1. JourneyTypes /\ r \in Actors /\ job[r].pc = "drop"
    BY DEF JourneyInv, Actors, Drop, At
  <1>2. PICK id \in Sessions : id = job[r].id /\ id \in touched
    BY <1>1 DEF JourneyInv, JobsInv, JobOK
  <1>3. flow' = flow /\ OutsideMoves /\ KeepRest /\ KeepClaims
    BY <1>1, OutsideIdle DEF Drop, JourneyTypes, workflowVars
  <1>4. StoreKeeps(Sessions \ {id})
    BY <1>1, <1>2, <1>3, InvalidateKeeps DEF Drop, JourneyTypes
  <1>5. PICK j \in Jobs : job' = [job EXCEPT ![r] = j] /\ job'[r] = j /\ j.pc = "done"
    BY <1>1, GotoIs DEF Drop, JourneyTypes, JobPCs
  <1>6. JobOK(r)'
    BY <1>5 DEF JobOK
  <1>7. QED
    BY <1>1, <1>2, <1>3, <1>4, <1>5, <1>6, StepKeeps DEF StoreKeeps

LEMMA DeathKeeps == ASSUME JourneyInv, NEW d \in Deliveries, Crash(d) PROVE JourneyInv'
  <1>1. JourneyTypes /\ d \in Actors
    BY DEF JourneyInv, Actors
  <1>2. flow' = flow /\ OutsideMoves /\ KeepRest /\ KeepClaims /\ StoreKeeps(Sessions)
    BY <1>1, OutsideIdle, StoreIdle DEF Crash, JourneyTypes, workflowVars
  <1>3. PICK j \in Jobs : job' = [job EXCEPT ![d] = j] /\ job'[d] = j /\ j.pc = "done"
    BY <1>1, GotoIs DEF Crash, JourneyTypes, JobPCs
  <1>4. JobOK(d)'
    BY <1>3 DEF JobOK
  <1>5. QED
    BY <1>1, <1>2, <1>3, <1>4, StepKeeps DEF StoreKeeps

LEMMA ClaimKeeps == ASSUME JourneyInv, NEW d \in Deliveries, Claim(d) PROVE JourneyInv'
  <1> DEFINE m == MsgOf[d]
  <1>1. JourneyTypes /\ JobOK(d) /\ d \in Actors /\ job[d].pc = "claim" /\ job[d].id = Nobody
        /\ m \in Messages
    BY DEF JourneyInv, JobsInv, Actors, Claim, At, JobOK, Messages
  <1>2. /\ UNCHANGED <<storeVars, workflowVars, starts>> /\ KeepRest
        /\ \/ Done(d) /\ UNCHANGED <<claimed, outages>>
           \/ /\ m \notin claimed /\ claimed' = claimed \cup {m}
              /\ GotoPc(d, "start") /\ UNCHANGED outages
           \/ outages' = outages + 1 /\ GotoPc(d, "start") /\ UNCHANGED claimed
    BY DEF Claim
  <1>3. flow' = flow /\ wf' = wf /\ buf' = buf /\ OutsideMoves /\ StoreKeeps(Sessions)
    BY <1>1, <1>2, OutsideIdle, StoreIdle DEF JourneyTypes, workflowVars
  <1>4. MarkTypes' /\ touched' = touched /\ flushed' = flushed
    BY <1>1, <1>2, MarksStay DEF JourneyTypes
  <1>5. PICK j \in Jobs : /\ job' = [job EXCEPT ![d] = j] /\ job'[d] = j
                          /\ j.pc = "done" \/ (j.pc = "start" /\ j.id = Nobody)
                          /\ Done(d) => j.pc = "done"
    BY <1>1, <1>2, GotoIs DEF JourneyTypes, JobPCs
  <1>6. JobOK(d)'
    BY <1>5 DEF JobOK
  <1>7. JobTypes' /\ JobsInv' /\ StartsAlone'
    BY <1>1, <1>3, <1>4, <1>5, <1>6, StartedStays, JobsMove DEF JourneyInv, JourneyTypes
  <1>8. ClaimTypes'
    BY <1>1, <1>2 DEF JourneyTypes, ClaimTypes
  <1>9. ASSUME NEW n \in Messages
        PROVE  starts'[n] + Cardinality(Claimants(n)')
                 <= (IF n \in claimed' THEN 1 ELSE 0) + outages'
    <2>1. PICK before, after : before = Claimants(n) /\ after = Claimants(n)'
      OBVIOUS
    <2>2. IsFiniteSet(before) /\ Cardinality(before) \in Nat
      BY <2>1, ClaimantsAre
    <2>3. /\ n # m => after \subseteq before
          /\ Done(d) => after \subseteq before
          /\ after \subseteq before \cup {d}
      <3>1. \A e \in Deliveries \ {d} : job'[e] = job[e]
        BY <1>1, <1>5 DEF JourneyTypes, JobTypes, Actors
      <3>2. QED
        BY <1>1, <1>5, <2>1, <3>1 DEF Claimants, At
    <2>4. /\ IsFiniteSet(before \cup {d})
          /\ Cardinality(before \cup {d}) <= Cardinality(before) + 1
          /\ Cardinality(before \cup {d}) \in Nat
      <3>1. /\ IsFiniteSet(before \cup {d})
            /\ Cardinality(before \cup {d}) =
                 IF d \in before THEN Cardinality(before) ELSE Cardinality(before) + 1
        BY <2>2, FS_AddElement
      <3>2. QED
        BY <2>2, <3>1
    <2>5. /\ after \subseteq before => Cardinality(after) <= Cardinality(before)
          /\ Cardinality(after) <= Cardinality(before) + 1
          /\ Cardinality(after) \in Nat
      BY <2>2, <2>3, <2>4, FS_Subset, FS_CardinalityType
    <2>6. /\ starts[n] + Cardinality(before) <= (IF n \in claimed THEN 1 ELSE 0) + outages
          /\ starts[n] \in Nat /\ outages \in Nat /\ starts'[n] = starts[n]
      BY <1>1, <1>2, <2>1 DEF JourneyInv, ClaimsInv, JourneyTypes, ClaimTypes
    <2>7. CASE Done(d) /\ UNCHANGED <<claimed, outages>>
      BY <2>1, <2>2, <2>3, <2>5, <2>6, <2>7
    <2>8. CASE m \notin claimed /\ claimed' = claimed \cup {m} /\ UNCHANGED outages
      <3>1. CASE n = m
        BY <2>1, <2>2, <2>5, <2>6, <2>8, <3>1
      <3>2. CASE n # m
        BY <2>1, <2>2, <2>3, <2>5, <2>6, <2>8, <3>2
      <3>3. QED
        BY <3>1, <3>2
    <2>9. CASE outages' = outages + 1 /\ UNCHANGED claimed
      BY <2>1, <2>2, <2>5, <2>6, <2>9
    <2>10. QED
      BY <1>2, <2>7, <2>8, <2>9
  <1>10. ClaimsInv'
    BY <1>9 DEF ClaimsInv
  <1>11. ActivityInv'
    BY <1>3 DEF JourneyInv, ActivityInv
  <1>12. VisibleInv'
    BY <1>3, <1>4 DEF JourneyInv, VisibleInv, StoreKeeps, IsLive
  <1>13. QED
    BY <1>3, <1>4, <1>7, <1>8, <1>10, <1>11, <1>12
    DEF JourneyInv, JourneyTypes, OutsideMoves, StoreKeeps

LEMMA StartWorkflowKeeps == ASSUME JourneyInv, NEW a \in Actors, StartWorkflow(a) PROVE JourneyInv'
  <1>1. JourneyTypes /\ JobOK(a) /\ job[a].pc = "start" /\ job[a] \in Jobs
    BY JobIs DEF JourneyInv, JobsInv, StartWorkflow, At, JourneyTypes
  <1>2. PICK s \in Sessions :
            /\ s = StartedSession(a) /\ ~Started(s)
            /\ \A b \in Actors \ {a} : ~(job[b].pc = "start" /\ job[b].id = s)
            /\ \A b \in Actors : job[b].pc = "verdict" => job[b].id # s
    <2>1. CASE job[a].id = Nobody
      <3>1. Drawn \in Fresh /\ StartedSession(a) = Drawn
        BY <2>1 DEF StartWorkflow, Drawn, StartedSession
      <3>2. QED
        BY <3>1 DEF Fresh
    <2>2. CASE job[a].id # Nobody
      <3>1. job[a].id \in Sessions /\ StartedSession(a) = job[a].id /\ ~Started(job[a].id)
        BY <1>1, <2>2 DEF StartedSession, JobOK, Jobs
      <3>2. \A b \in Actors \ {a} : ~(job[b].pc = "start" /\ job[b].id = job[a].id)
        BY <1>1, <3>1 DEF JourneyInv, StartsAlone, AtStart
      <3>3. \A b \in Actors : job[b].pc = "verdict" => job[b].id # job[a].id
        BY <3>1 DEF JourneyInv, JobsInv, JobOK
      <3>4. QED
        BY <3>1, <3>2, <3>3
    <2>3. QED
      BY <2>1, <2>2
  <1>3. /\ wf' = [wf EXCEPT ![s].pc = "queued"]
        /\ flow' = flow /\ buf' = buf /\ UNCHANGED storeVars /\ claimed' = claimed
        /\ outages' = outages /\ KeepRest
        /\ job' = [job EXCEPT ![a] = [job[a] EXCEPT !.pc = "verdict", !.id = s]]
    BY <1>2 DEF StartWorkflow, Start, TurnsTo
  <1>4. MarkTypes' /\ touched' = touched /\ flushed' = flushed /\ StoreKeeps(Sessions)
    BY <1>1, <1>3, MarksStay, StoreIdle DEF JourneyTypes
  <1>5. /\ wf'[s].pc = "queued"
        /\ \A t \in Sessions \ {s} : wf'[t] = wf[t]
        /\ wf[s].pc = "none"
    BY <1>1, <1>2, <1>3 DEF JourneyTypes, WorkflowTypes, Started
  <1>6. WorkflowTypes'
    <2>1. [wf[s] EXCEPT !.pc = "queued"] \in Workflows
      BY <1>1 DEF JourneyTypes, WorkflowTypes, Workflows, PCs
    <2>2. wf' = [wf EXCEPT ![s] = [wf[s] EXCEPT !.pc = "queued"]]
      BY <1>1, <1>3 DEF JourneyTypes, WorkflowTypes
    <2>3. QED
      BY <1>1, <1>3, <2>1, <2>2, FlowStays DEF JourneyTypes, WorkflowTypes
  <1>7. PICK j \in Jobs : /\ job' = [job EXCEPT ![a] = j] /\ job'[a] = j
                          /\ j.pc = "verdict" /\ j.id = s
    <2> DEFINE k == [job[a] EXCEPT !.pc = "verdict", !.id = s]
    <2>1. k \in Jobs /\ k.pc = "verdict" /\ k.id = s
      BY <1>1 DEF Jobs, JobPCs
    <2>2. QED
      BY <1>1, <1>3, <2>1 DEF JourneyTypes, JobTypes
  <1>8. \A b \in Actors \ {a} : job'[b] = job[b]
    BY <1>1, <1>3 DEF JourneyTypes, JobTypes
  <1>9. JobTypes' /\ JobsInv' /\ StartsAlone'
    <2>1. JobTypes'
      BY <1>1, <1>3, <1>7, FlowStays DEF JourneyTypes, JobTypes
    <2>2. Started(s)' /\ \A t \in Sessions \ {s} : Started(t)' <=> Started(t)
      BY <1>5 DEF Started
    <2>3. ASSUME NEW b \in Actors PROVE JobOK(b)'
      <3>1. CASE b = a
        BY <1>7, <2>2, <3>1 DEF JobOK
      <3>2. CASE b # a
        <4>1. JobOK(b) /\ job[b].id \in Sessions \cup {Nobody} /\ job'[b] = job[b]
          BY <1>1, <1>8, <3>2, JobIs DEF JourneyInv, JobsInv, JourneyTypes
        <4>2. job[b].pc = "start" => job[b].id # s
          BY <1>2, <3>2
        <4>3. QED
          BY <1>4, <2>2, <4>1, <4>2 DEF JobOK
      <3>3. QED
        BY <3>1, <3>2
    <2>4. StartsAlone'
      BY <1>7, <1>8 DEF JourneyInv, StartsAlone, AtStart
    <2>5. QED
      BY <2>1, <2>3, <2>4 DEF JobsInv
  <1>10. ASSUME NEW n \in Messages
         PROVE  /\ starts'[n] \in Nat
                /\ starts'[n] + Cardinality(Claimants(n)')
                     <= (IF n \in claimed' THEN 1 ELSE 0) + outages'
    <2>1. PICK before, after : before = Claimants(n) /\ after = Claimants(n)'
      OBVIOUS
    <2>2. IsFiniteSet(before) /\ Cardinality(before) \in Nat
      BY <2>1, ClaimantsAre
    <2>3. /\ starts[n] + Cardinality(before) <= (IF n \in claimed THEN 1 ELSE 0) + outages
          /\ starts[n] \in Nat /\ outages \in Nat
          /\ starts'[n] = starts[n] + (IF a \in Deliveries /\ MsgOf[a] = n THEN 1 ELSE 0)
      BY <1>1, <2>1 DEF JourneyInv, ClaimsInv, JourneyTypes, ClaimTypes, StartWorkflow
    <2>4. after = before \ {a} /\ (a \in Deliveries /\ MsgOf[a] = n => a \in before)
      BY <1>1, <1>7, <1>8, <2>1 DEF Claimants, At, Actors
    <2>5. Cardinality(after) = IF a \in before THEN Cardinality(before) - 1 ELSE Cardinality(before)
      BY <2>2, <2>4, FS_RemoveElement
    <2>6. Cardinality(after) \in Nat
      BY <2>1, <2>2, <2>4, FS_Subset, FS_CardinalityType
    <2>7. QED
      BY <1>3, <2>1, <2>2, <2>3, <2>4, <2>5, <2>6
  <1>11. ClaimTypes' /\ ClaimsInv'
    <2>1. starts' \in [Messages -> Nat]
      BY <1>10 DEF StartWorkflow
    <2>2. QED
      BY <1>1, <1>3, <1>10, <2>1 DEF JourneyTypes, ClaimTypes, ClaimsInv
  <1>12. ActivityInv'
    <2>1. buf[s] = Idle
      BY <1>5 DEF JourneyInv, ActivityInv, Ops
    <2>2. QED
      BY <1>3, <1>5, <2>1 DEF JourneyInv, ActivityInv
  <1>13. VisibleInv'
    <2>1. "queued" \notin Executing
      BY DEF Executing
    <2>2. ASSUME NEW t \in Sessions \ touched', ~flushed'
          PROVE  /\ wf'[t].pc \in Executing => Visible(t)'
                 /\ buf'[t].op \in Executing => IsLive(buf'[t].rec)
      BY <1>3, <1>4, <1>5, <2>1, <2>2 DEF JourneyInv, VisibleInv, StoreKeeps
    <2>3. QED
      BY <2>2 DEF VisibleInv, IsLive
  <1>14. QED
    BY <1>4, <1>6, <1>9, <1>11, <1>12, <1>13 DEF JourneyInv, JourneyTypes, StoreKeeps

-------------------------------------------------------------------------------
(* Journeys: what a workflow does.                                           *)

\* A step of the workflow of one session.
LEMMA WorkMoves ==
    ASSUME JourneyInv, flow' = flow, job' = job, KeepRest, KeepClaims, StoreTypes',
           NEW s \in Sessions, NEW w \in Workflows, NEW b \in Copies,
           wf' = [wf EXCEPT ![s] = w], buf' = [buf EXCEPT ![s] = b],
           wf[s].pc # "none", w.pc # "none",
           b = Idle \/ (b.op \in Ops /\ (w.pc = b.op \/ w.pc = "killed")),
           \A t \in Sessions \ {s} : Visible(t) => Visible(t)',
           s \notin touched /\ ~flushed => /\ w.pc \in Executing => Visible(s)'
                                           /\ b.op \in Executing => IsLive(b.rec)
    PROVE  JourneyInv'
  <1>1. JourneyTypes /\ MarkTypes' /\ touched' = touched /\ flushed' = flushed
    BY MarksStay DEF JourneyInv, JourneyTypes
  <1>2. /\ wf'[s] = w /\ \A t \in Sessions \ {s} : wf'[t] = wf[t]
        /\ buf'[s] = b /\ \A t \in Sessions \ {s} : buf'[t] = buf[t]
    BY <1>1 DEF JourneyTypes, WorkflowTypes
  <1>3. WorkflowTypes'
    BY <1>1, FlowStays DEF JourneyTypes, WorkflowTypes, Workflows
  <1>4. JobTypes' /\ JobsInv' /\ StartsAlone'
    <2>1. \A t \in Sessions : Started(t)' <=> Started(t)
      BY <1>2 DEF Started
    <2>2. QED
      BY <1>1, <2>1, JobsIdle DEF JourneyInv, JourneyTypes
  <1>5. ClaimTypes' /\ ClaimsInv'
    BY <1>1, ClaimsStay DEF JourneyInv, JourneyTypes, At
  <1>6. ActivityInv'
    BY <1>2 DEF JourneyInv, ActivityInv
  <1>7. VisibleInv'
    <2>1. ASSUME NEW t \in Sessions \ touched', ~flushed'
          PROVE  /\ wf'[t].pc \in Executing => Visible(t)'
                 /\ buf'[t].op \in Executing => IsLive(buf'[t].rec)
      <3>1. CASE t = s
        BY <1>1, <1>2, <2>1, <3>1
      <3>2. CASE t # s
        BY <1>1, <1>2, <2>1, <3>2 DEF JourneyInv, VisibleInv
      <3>3. QED
        BY <3>1, <3>2
    <2>2. QED
      BY <2>1 DEF VisibleInv, IsLive
  <1>8. QED
    BY <1>1, <1>3, <1>4, <1>5, <1>6, <1>7 DEF JourneyInv, JourneyTypes

LEMMA IdleIs == Idle \in Copies /\ Idle.op \notin Executing
  BY NoneIs DEF Idle, Copies, Executing

LEMMA WorkflowIs ==
    ASSUME WorkflowTypes, NEW s \in Sessions
    PROVE  /\ wf[s] \in Workflows /\ wf[s].node \in Nodes /\ wf[s].done \subseteq Nodes
           /\ wf[s].status \in {"running", "completed", "failed"} /\ wf[s].pc \in PCs
           /\ wf' = wf => wf' = [wf EXCEPT ![s] = wf[s]]
           /\ buf[s] \in Copies
           /\ buf' = buf => buf' = [buf EXCEPT ![s] = buf[s]]
           /\ \A p \in PCs : Goto(s, p) =>
                \E w \in Workflows : wf' = [wf EXCEPT ![s] = w] /\ w.pc = p
  <1>1. /\ wf \in [Sessions -> Workflows] /\ wf[s] \in Workflows
        /\ buf \in [Sessions -> Copies]
    BY DEF WorkflowTypes, Workflows
  <1>2. ASSUME NEW p \in PCs, Goto(s, p)
        PROVE  \E w \in Workflows : wf' = [wf EXCEPT ![s] = w] /\ w.pc = p
    <2>1. wf' = [wf EXCEPT ![s] = [wf[s] EXCEPT !.pc = p]]
      BY <1>1, <1>2 DEF Goto
    <2>2. [wf[s] EXCEPT !.pc = p] \in Workflows /\ [wf[s] EXCEPT !.pc = p].pc = p
      BY <1>1 DEF Workflows
    <2>3. QED
      BY <2>1, <2>2
  <1>3. QED
    BY <1>1, <1>2 DEF Workflows

LEMMA AfterIs ==
    ASSUME NEW s \in Sessions, NEW op \in Ops
    PROVE  /\ After(s, op) \in PCs \ {"none"}
           /\ op \in {"finish", "fail"} => After(s, op) = "closed"
           /\ op = "unwait" => After(s, op) = "record"
  <1>1. LoopHead(s) \in {"log", "finish"}
    BY DEF LoopHead
  <1>2. /\ op = "enter" => After(s, op) = LoopHead(s)
        /\ op = "log" => After(s, op) \in {"register", "record"}
        /\ op = "register" => After(s, op) = "parked"
        /\ op = "unwait" => After(s, op) = "record"
        /\ op = "record" => After(s, op) \in {"left", "finish", "idle", LoopHead(s)}
        /\ op \in {"finish", "fail"} => After(s, op) = "closed"
    BY DEF After
  <1>3. QED
    BY <1>1, <1>2 DEF Ops, PCs, Over

LEMMA GoOnIs ==
    ASSUME WorkflowTypes, NEW s \in Sessions, NEW op \in Ops, GoOn(s, op)
    PROVE  \E w \in Workflows : wf' = [wf EXCEPT ![s] = w] /\ w.pc = After(s, op)
  <1>1. PICK n \in NextNodes(s, op) :
            wf' = [wf EXCEPT ![s].pc = After(s, op), ![s].node = n,
                             ![s].status = StatusAfter(s, op),
                             ![s].done = DoneAfter(s, op)]
    BY DEF GoOn
  <1>2. wf[s] \in Workflows /\ wf \in [Sessions -> Workflows]
    BY DEF WorkflowTypes, Workflows
  <1>3. n \in Nodes
    BY <1>1, WorkflowIs, NodesAre DEF NextNodes, WorkflowTypes
  <1>4. /\ StatusAfter(s, op) \in {"running", "completed", "failed"}
        /\ DoneAfter(s, op) \in SUBSET Nodes
    BY WorkflowIs DEF StatusAfter, DoneAfter
  <1>5. After(s, op) \in PCs
    BY AfterIs
  <1> DEFINE w == [pc |-> After(s, op), node |-> n, status |-> StatusAfter(s, op),
                   done |-> DoneAfter(s, op)]
  <1>6. w \in Workflows /\ w.pc = After(s, op)
    BY <1>3, <1>4, <1>5 DEF Workflows
  <1>7. wf' = [wf EXCEPT ![s] = w]
    <2>1. PICK p, st, dn : p = After(s, op) /\ st = StatusAfter(s, op) /\ dn = DoneAfter(s, op)
      OBVIOUS
    <2>2. wf' = [wf EXCEPT ![s].pc = p, ![s].node = n, ![s].status = st, ![s].done = dn]
      BY <1>1, <2>1
    <2>3. wf' = [wf EXCEPT ![s] = [pc |-> p, node |-> n, status |-> st, done |-> dn]]
      <3>1. /\ wf' \in [Sessions -> Workflows]
            /\ wf'[s] = [pc |-> p, node |-> n, status |-> st, done |-> dn]
            /\ \A t \in Sessions \ {s} : wf'[t] = wf[t]
        BY <1>2, <1>3, <1>4, <1>5, <2>1, <2>2 DEF Workflows
      <3>2. [wf EXCEPT ![s] = [pc |-> p, node |-> n, status |-> st, done |-> dn]]
              \in [Sessions -> Workflows]
        BY <1>2, <1>6, <2>1
      <3>3. QED
        BY <3>1, <3>2
    <2>4. QED
      BY <2>1, <2>3
  <1>8. QED
    BY <1>6, <1>7

LEMMA ReadsKeep ==
    ASSUME JourneyInv, NEW s \in Sessions, ActivityReads(s), job' = job, KeepRest, KeepClaims
    PROVE  JourneyInv'
  <1> DEFINE b == [op |-> wf[s].pc, rec |-> Seen(s)]
  <1>1. JourneyTypes /\ wf[s].pc \in Ops /\ flow' = flow /\ wf' = wf
        /\ buf' = [buf EXCEPT ![s] = b]
    BY DEF JourneyInv, ActivityReads
  <1>2. StoreKeeps(Sessions)
    <2>1. CASE ReadThrough(s)
      BY <1>1, <2>1, ReadThroughKeeps DEF JourneyTypes
    <2>2. CASE UpdateRow(s, Patched(wf[s].pc, rows[s], wf[s].node))
      <3>1. Patched(wf[s].pc, rows[s], wf[s].node) \in Records
        BY <1>1, WorkflowIs, PatchedIs DEF JourneyTypes, StoreTypes
      <3>2. QED
        BY <1>1, <2>2, <3>1, UpdateRowKeeps DEF JourneyTypes
    <2>3. QED
      BY <2>1, <2>2 DEF ActivityReads
  <1>3. Seen(s) \in Records /\ (IsLive(redis[s]) => Seen(s) = redis[s])
    BY <1>1, SeenIs DEF JourneyTypes
  <1>4. wf[s] \in Workflows /\ wf' = [wf EXCEPT ![s] = wf[s]]
        /\ b \in Copies
    BY <1>1, <1>3, WorkflowIs DEF JourneyTypes, Copies
  <1>5. wf[s].pc # "none"
    BY <1>1 DEF Ops
  <1>6. s \notin touched /\ ~flushed /\ wf[s].pc \in Executing
          => Visible(s) /\ Visible(s)' /\ IsLive(Seen(s))
    BY <1>2, <1>3 DEF JourneyInv, VisibleInv, Visible, StoreKeeps
  <1>7. QED
    BY <1>1, <1>2, <1>4, <1>5, <1>6, WorkMoves DEF StoreKeeps

LEMMA WritesKeep ==
    ASSUME JourneyInv, NEW s \in Sessions, ActivityWrites(s), job' = job, KeepRest, KeepClaims
    PROVE  JourneyInv'
  <1>1. JourneyTypes /\ flow' = flow /\ buf[s] # Idle /\ buf' = [buf EXCEPT ![s] = Idle]
    BY DEF JourneyInv, ActivityWrites
  <1>2. PICK op \in Ops : /\ op = buf[s].op
                          /\ wf[s].pc = op \/ wf[s].pc = "killed"
    BY <1>1 DEF JourneyInv, ActivityInv
  <1>3. PICK rec \in Records : rec = buf[s].rec
    BY <1>1, WorkflowIs DEF JourneyTypes, Copies
  <1>4. /\ Patched(op, rec, wf[s].node) \in Records
        /\ op = "enter" => IsLive(Patched(op, rec, wf[s].node))
        /\ op \in Executing /\ IsLive(rec) => IsLive(Patched(op, rec, wf[s].node))
    BY <1>1, WorkflowIs, PatchedIs DEF JourneyTypes
  <1>5. /\ StoreKeeps(Sessions \ {s})
        /\ IsLive(Patched(op, rec, wf[s].node)) => Visible(s)'
    BY <1>1, <1>2, <1>3, <1>4, PutStores DEF ActivityWrites, JourneyTypes
  <1>6. PICK w \in Workflows :
            /\ wf' = [wf EXCEPT ![s] = w]
            /\ \/ w.pc = After(s, op)
               \/ w = wf[s] /\ w.pc = "killed"
    <2>1. CASE wf[s].pc = op
      <3>1. GoOn(s, op)
        BY <1>2, <2>1 DEF ActivityWrites
      <3>2. QED
        BY <1>1, <3>1, GoOnIs DEF JourneyTypes
    <2>2. CASE wf[s].pc # op
      <3>1. wf' = wf
        BY <1>2, <2>2 DEF ActivityWrites
      <3>2. QED
        BY <1>1, <1>2, <2>2, <3>1, WorkflowIs DEF JourneyTypes
    <2>3. QED
      BY <2>1, <2>2
  <1>7. wf[s].pc # "none" /\ w.pc # "none"
    BY <1>2, <1>6, AfterIs DEF Ops
  <1>8. ASSUME s \notin touched, ~flushed, w.pc \in Executing PROVE Visible(s)'
    <2>1. op \notin {"finish", "fail"} /\ w.pc # "killed"
      BY <1>6, <1>8, AfterIs DEF Executing
    <2>2. op = "enter" \/ op \in Executing
      BY <2>1 DEF Ops, Executing
    <2>3. op \in Executing => IsLive(rec)
      BY <1>2, <1>3, <1>8 DEF JourneyInv, VisibleInv
    <2>4. QED
      BY <1>4, <1>5, <2>2, <2>3
  <1>9. QED
    BY <1>1, <1>5, <1>6, <1>7, <1>8, IdleIs, WorkMoves DEF StoreKeeps

LEMMA TurnsKeep ==
    ASSUME JourneyInv, NEW s \in Sessions, UNCHANGED storeVars, flow' = flow,
           Begin(s) \/ WaitEnds(s) \/ ActivityFails(s) \/ ExecutionTimeout(s),
           job' = job, KeepRest, KeepClaims
    PROVE  JourneyInv'
  <1>1. JourneyTypes /\ StoreKeeps(Sessions)
    BY StoreIdle DEF JourneyInv, JourneyTypes
  <1>2. PICK w \in Workflows, b \in Copies :
            /\ wf' = [wf EXCEPT ![s] = w] /\ buf' = [buf EXCEPT ![s] = b]
            /\ b = Idle /\ wf[s].pc # "none" /\ w.pc # "none"
            /\ w.pc \in Executing => wf[s].pc \in Executing
    <2>1. ASSUME NEW p \in PCs, Goto(s, p), wf[s].pc # "none", p # "none",
                 p \in Executing => wf[s].pc \in Executing,
                 \/ wf[s].pc \notin Ops \cup {"killed"} /\ buf' = buf
                 \/ buf' = [buf EXCEPT ![s] = Idle]
          PROVE  \E w \in Workflows, b \in Copies :
                    /\ wf' = [wf EXCEPT ![s] = w] /\ buf' = [buf EXCEPT ![s] = b]
                    /\ b = Idle /\ wf[s].pc # "none" /\ w.pc # "none"
                    /\ w.pc \in Executing => wf[s].pc \in Executing
      <3>1. PICK w \in Workflows : wf' = [wf EXCEPT ![s] = w] /\ w.pc = p
        BY <1>1, <2>1, WorkflowIs DEF JourneyTypes
      <3>2. buf' = [buf EXCEPT ![s] = Idle]
        <4>1. ASSUME wf[s].pc \notin Ops \cup {"killed"}, buf' = buf
              PROVE  buf' = [buf EXCEPT ![s] = Idle]
          <5>1. buf[s] = Idle
            BY <4>1 DEF JourneyInv, ActivityInv
          <5>2. QED
            BY <1>1, <4>1, <5>1, WorkflowIs DEF JourneyTypes
        <4>2. QED
          BY <2>1, <4>1
      <3>3. QED
        BY <2>1, <3>1, <3>2, IdleIs
    <2>2. CASE Begin(s)
      <3>1. wf[s].pc = "queued" /\ Goto(s, "enter") /\ buf' = buf
        BY <2>2 DEF Begin
      <3>2. QED
        BY <2>1, <3>1 DEF PCs, Ops, Executing
    <2>3. CASE WaitEnds(s)
      <3>1. wf[s].pc = "parked" /\ Goto(s, "unwait") /\ buf' = buf
        BY <2>3 DEF WaitEnds
      <3>2. QED
        BY <2>1, <3>1 DEF PCs, Ops, Executing
    <2>4. CASE ExecutionTimeout(s)
      <3>1. wf[s].pc \in {"queued", "idle", "parked"} /\ Goto(s, "killed") /\ buf' = buf
        BY <2>4 DEF ExecutionTimeout
      <3>2. QED
        BY <2>1, <3>1 DEF PCs, Ops, Over, Executing
    <2>5. CASE ActivityFails(s)
      <3>1. /\ wf[s].pc \in Ops /\ buf' = [buf EXCEPT ![s] = Idle]
            /\ \/ Goto(s, "left")
               \/ Goto(s, "fail")
               \/ wf[s].pc = "unwait" /\ GoOn(s, "unwait")
        BY <2>5 DEF ActivityFails
      <3>2. CASE Goto(s, "left") \/ Goto(s, "fail")
        BY <2>1, <3>1, <3>2 DEF PCs, Ops, Over, Executing
      <3>3. CASE wf[s].pc = "unwait" /\ GoOn(s, "unwait")
        <4>1. PICK w \in Workflows : wf' = [wf EXCEPT ![s] = w] /\ w.pc = "record"
          BY <1>1, <3>3, GoOnIs, AfterIs DEF JourneyTypes, Ops
        <4>2. wf[s].pc \in Executing
          BY <3>3 DEF Executing
        <4>3. QED
          BY <3>1, <3>3, <4>1, <4>2, IdleIs
      <3>4. QED
        BY <3>1, <3>2, <3>3
    <2>6. QED
      BY <2>2, <2>3, <2>4, <2>5
  <1>3. s \notin touched /\ ~flushed /\ w.pc \in Executing => Visible(s)'
    BY <1>1, <1>2 DEF JourneyInv, VisibleInv, StoreKeeps
  <1>4. QED
    BY <1>1, <1>2, <1>3, IdleIs, WorkMoves DEF StoreKeeps

LEMMA WorkKeeps == ASSUME JourneyInv, NEW s \in Sessions, Work(s) \/ WorkFails(s) PROVE JourneyInv'
  <1>1. job' = job /\ KeepRest /\ KeepClaims
    BY DEF Work, WorkFails
  <1>2. CASE ActivityReads(s)
    BY <1>1, <1>2, ReadsKeep
  <1>3. CASE ActivityWrites(s)
    BY <1>1, <1>3, WritesKeep
  <1>4. CASE Begin(s) \/ WaitEnds(s) \/ ActivityFails(s) \/ ExecutionTimeout(s)
    <2>1. UNCHANGED storeVars /\ flow' = flow
      BY <1>4 DEF Begin, WaitEnds, ActivityFails, ExecutionTimeout
    <2>2. QED
      BY <1>1, <1>4, <2>1, TurnsKeep
  <1>5. QED
    BY <1>2, <1>3, <1>4 DEF Work, WorkFails, WorkflowStep

-------------------------------------------------------------------------------
(* Journeys: the environment, and the theorem.                               *)

LEMMA SurroundingsKeep ==
    ASSUME JourneyInv, RedisLost \/ WorkersDown \/ WorkersBack \/ UNCHANGED vars
    PROVE  JourneyInv'
  <1>1. /\ JourneyTypes /\ UNCHANGED workflowVars /\ job' = job /\ touched' = touched /\ KeepClaims
        /\ (Flush /\ flushed' = TRUE) \/ (UNCHANGED storeVars /\ flushed' = flushed)
    BY DEF JourneyInv, RedisLost, WorkersDown, WorkersBack, vars, KeepClaims
  <1>2. flow' = flow /\ wf' = wf /\ buf' = buf /\ OutsideMoves /\ MarkTypes'
    BY <1>1, OutsideIdle DEF JourneyTypes, MarkTypes, workflowVars
  <1>3. StoreTypes' /\ (flushed' \/ StoreKeeps(Sessions))
    <2>1. CASE Flush /\ flushed' = TRUE
      BY <1>1, <1>2, <2>1, NoneIs, FlowStays DEF Flush, JourneyTypes, StoreTypes
    <2>2. CASE UNCHANGED storeVars
      BY <1>1, <1>2, <2>2, StoreIdle DEF JourneyTypes, StoreKeeps
    <2>3. QED
      BY <1>1, <2>1, <2>2
  <1>4. JobTypes' /\ JobsInv' /\ StartsAlone'
    BY <1>1, <1>2, StartedStays, JobsIdle DEF JourneyInv, JourneyTypes
  <1>5. ClaimTypes' /\ ClaimsInv'
    BY <1>1, ClaimsStay DEF JourneyInv, JourneyTypes, At
  <1>6. ActivityInv'
    BY <1>2 DEF JourneyInv, ActivityInv
  <1>7. VisibleInv'
    <2>1. CASE flushed'
      BY <2>1 DEF VisibleInv
    <2>2. CASE ~flushed' /\ flushed' = flushed /\ StoreKeeps(Sessions)
      BY <1>1, <1>2, <2>2 DEF JourneyInv, VisibleInv, StoreKeeps, IsLive
    <2>3. QED
      BY <1>1, <1>3, <2>1, <2>2
  <1>8. QED
    BY <1>2, <1>3, <1>4, <1>5, <1>6, <1>7 DEF JourneyInv, JourneyTypes, OutsideMoves

LEMMA JourneysInit == ASSUME Init PROVE JourneyInv
  <1>1. flow \in Flows /\ wf = [s \in Sessions |-> Unstarted] /\ buf = [s \in Sessions |-> Idle]
    BY DEF Init, WorkflowInit
  <1>2. Unstarted \in Workflows /\ Unstarted.pc = "none" /\ Unstarted.pc \notin Executing
    BY <1>1, NodesAre DEF Unstarted, Workflows, PCs, Executing
  <1>3. WorkflowTypes
    BY <1>1, <1>2, IdleIs DEF WorkflowTypes, Workflows
  <1>4. StoreTypes
    BY NoneIs DEF Init, StoreInit, StoreTypes
  <1>5. ClaimTypes /\ MarkTypes
    BY DEF Init, ClaimTypes, MarkTypes
  <1>6. JobTypes /\ \A a \in Actors : job[a].pc = "idle" /\ job[a].id = Nobody
    <2>1. NoJob \in Jobs /\ NoJob.pc = "idle" /\ NoJob.id = Nobody
      BY NoneIs DEF NoJob, Jobs, JobPCs
    <2>2. QED
      BY <2>1 DEF Init, JobTypes
  <1>7. JobsInv /\ StartsAlone
    BY <1>6 DEF JobsInv, JobOK, StartsAlone, AtStart
  <1>8. ActivityInv
    BY <1>1 DEF ActivityInv
  <1>9. VisibleInv
    BY <1>1, <1>2, IdleIs DEF VisibleInv
  <1>10. ClaimsInv
    <2>1. \A m \in Messages : Claimants(m) = {}
      BY <1>6 DEF Claimants, At, Actors
    <2>2. QED
      BY <2>1, FS_EmptySet DEF Init, ClaimsInv
  <1>11. QED
    BY <1>3, <1>4, <1>5, <1>6, <1>7, <1>8, <1>9, <1>10 DEF JourneyInv, JourneyTypes

LEMMA JourneysStep == ASSUME JourneyInv, [Next]_vars PROVE JourneyInv'
  <1>1. CASE \E d \in Deliveries : DeliveryStep(d)
    BY <1>1, TakeKeeps, ResumeWaitKeeps, CompleteKeeps, MatchedKeeps, ClaimKeeps, FailDispatchKeeps,
       DeathKeeps DEF DeliveryStep
  <1>2. CASE \E r \in Requests : RequestStep(r)
    BY <1>2, ManualKeeps, CreateKeeps, OpenKeeps, CancelKeeps, RemoveKeeps, DropKeeps
    DEF RequestStep
  <1>3. CASE \E a \in Actors : \/ Guard(a) \/ StartWorkflow(a) \/ StartFails(a)
                               \/ Verdict(a) \/ ReadSession(a) \/ WriteSession(a)
    BY <1>3, GuardKeeps, StartWorkflowKeeps, StartFailsKeeps, VerdictKeeps, ReadSessionKeeps,
       WriteSessionKeeps
  <1>4. CASE \E s \in Sessions : Work(s) \/ WorkFails(s)
    BY <1>4, WorkKeeps
  <1>5. CASE RedisLost \/ WorkersDown \/ WorkersBack \/ UNCHANGED vars
    BY <1>5, SurroundingsKeep
  <1>6. QED
    BY <1>1, <1>2, <1>3, <1>4, <1>5 DEF Next

LEMMA JourneysPromise == ASSUME JourneyInv PROVE OneVisibleRun
  <1>1. JourneyTypes
    BY DEF JourneyInv
  <1>2. TypeOK
    <2>1. \A s \in Sessions : /\ redis[s] = None \/ redis[s].status \in Statuses
                              /\ rows[s] = None \/ rows[s].status \in Statuses
      BY <1>1, RecordIs DEF JourneyTypes, StoreTypes
    <2>2. \A s \in Sessions : /\ wf[s].pc \in PCs /\ wf[s].node \in Nodes
                              /\ wf[s].done \subseteq Nodes
                              /\ buf[s].op \in Ops \cup {"none"}
      BY <1>1 DEF JourneyTypes, WorkflowTypes, Workflows, Copies
    <2>3. index \subseteq Sessions /\ claimed \subseteq Messages
      BY <1>1 DEF JourneyTypes, StoreTypes, ClaimTypes
    <2>4. \A a \in Actors : job[a].pc \in JobPCs
      BY <1>1 DEF JourneyTypes, JobTypes, Jobs
    <2>5. QED
      BY <2>1, <2>2, <2>3, <2>4 DEF TypeOK, Nodes
  <1>3. OneStartPerMessage
    <2>1. ASSUME NEW m \in Messages PROVE starts[m] <= 1 + outages
      <3>1. /\ starts[m] + Cardinality(Claimants(m)) <= (IF m \in claimed THEN 1 ELSE 0) + outages
            /\ starts[m] \in Nat /\ outages \in Nat
        BY <1>1 DEF JourneyInv, ClaimsInv, JourneyTypes, ClaimTypes
      <3>2. Cardinality(Claimants(m)) \in Nat
        BY ClaimantsAre
      <3>3. QED
        BY <3>1, <3>2
    <2>2. QED
      BY <2>1 DEF OneStartPerMessage
  <1>4. RunningIsVisible
    <2>1. ASSUME NEW s \in Sessions, wf[s].pc \in Executing, s \notin touched, ~flushed
          PROVE  s \in Listed /\ IsLive(Seen(s))
      <3>1. s \in index /\ IsLive(redis[s])
        BY <2>1 DEF JourneyInv, VisibleInv, Visible
      <3>2. Seen(s) = redis[s]
        BY <1>1, <3>1, SeenIs DEF JourneyTypes
      <3>3. QED
        BY <3>1, <3>2 DEF Listed
    <2>2. QED
      BY <2>1 DEF RunningIsVisible, Executing
  <1>5. QED
    BY <1>2, <1>3, <1>4 DEF OneVisibleRun

\* However the deliveries of a message, the requests about a session and the
\* writers of its record interleave, a message starts its journey once (and
\* once more for each claim let through without Redis), and the guard
\* against a second run sees every session whose workflow executes nodes.
THEOREM RunsAreVisible == Spec => []OneVisibleRun
  <1>1. Init => JourneyInv
    BY JourneysInit
  <1>2. JourneyInv /\ [Next]_vars => JourneyInv'
    BY JourneysStep
  <1>3. JourneyInv => OneVisibleRun
    BY JourneysPromise
  <1>4. QED
    BY <1>1, <1>2, <1>3, PTL DEF Spec

-------------------------------------------------------------------------------
(* Journeys: no node after the cancel signal.                                *)

\* A node is started only by a workflow whose status is running.
LogsWhileRunning ==
    \A s \in Sessions : wf'[s].pc = "log" => wf[s].pc = "log" \/ wf[s].status = "running"

LEMMA ChangedLogs ==
    ASSUME WorkflowTypes, NEW s \in Sessions
    PROVE  /\ wf' = wf => LogsWhileRunning
           /\ \A w \in Workflows :
                /\ wf' = [wf EXCEPT ![s] = w]
                /\ w.pc = "log" => wf[s].pc = "log" \/ wf[s].status = "running"
                => LogsWhileRunning
           /\ \A p \in PCs \ {"log"} : Goto(s, p) => LogsWhileRunning
  <1>1. ASSUME NEW w \in Workflows, wf' = [wf EXCEPT ![s] = w],
               w.pc = "log" => wf[s].pc = "log" \/ wf[s].status = "running"
        PROVE  LogsWhileRunning
    <2>1. wf'[s] = w /\ \A t \in Sessions \ {s} : wf'[t] = wf[t]
      BY <1>1 DEF WorkflowTypes
    <2>2. QED
      BY <1>1, <2>1 DEF LogsWhileRunning
  <1>2. ASSUME NEW p \in PCs \ {"log"}, Goto(s, p) PROVE LogsWhileRunning
    <2>1. PICK w \in Workflows : wf' = [wf EXCEPT ![s] = w] /\ w.pc = p
      BY <1>2, WorkflowIs
    <2>2. QED
      BY <1>1, <1>2, <2>1
  <1>3. QED
    BY <1>1, <1>2 DEF LogsWhileRunning

LEMMA SignalLogs ==
    ASSUME WorkflowTypes, NEW s \in Sessions
    PROVE  /\ \A n \in Nodes : CompleteWait(s, n) => LogsWhileRunning
           /\ CancelSignal(s) => LogsWhileRunning
           /\ Terminate(s) => LogsWhileRunning
           /\ Start(s) => LogsWhileRunning
  <1>1. wf[s] \in Workflows
    BY WorkflowIs
  <1>2. ASSUME NEW n \in Nodes, CompleteWait(s, n) PROVE LogsWhileRunning
    <2> DEFINE w == [wf[s] EXCEPT !.done = @ \cup {n}]
    <2>1. w \in Workflows /\ w.pc = wf[s].pc
      BY <1>1 DEF Workflows
    <2>2. wf' = [wf EXCEPT ![s] = w]
      BY <1>2 DEF CompleteWait, Signalled
    <2> HIDE DEF w
    <2>3. QED
      BY <2>1, <2>2, ChangedLogs
  <1>3. ASSUME CancelSignal(s) PROVE LogsWhileRunning
    <2> DEFINE w == [wf[s] EXCEPT !.status = "failed"]
    <2>1. w \in Workflows /\ w.pc = wf[s].pc
      BY <1>1 DEF Workflows
    <2>2. wf' = [wf EXCEPT ![s] = w]
      BY <1>3 DEF CancelSignal, Signalled
    <2> HIDE DEF w
    <2>3. QED
      BY <2>1, <2>2, ChangedLogs
  <1>4. Terminate(s) => Goto(s, "killed")
    BY DEF Terminate, Goto
  <1>5. Start(s) => Goto(s, "queued")
    BY DEF Start, Goto
  <1>6. QED
    BY <1>2, <1>3, <1>4, <1>5, ChangedLogs DEF PCs, Over

LEMMA WorkLogs ==
    ASSUME JourneyInv, NEW s \in Sessions, Work(s) \/ WorkFails(s)
    PROVE  LogsWhileRunning
  <1>1. WorkflowTypes /\ wf[s] \in Workflows
    BY WorkflowIs DEF JourneyInv, JourneyTypes
  <1>2. ASSUME NEW op \in Ops, GoOn(s, op) PROVE LogsWhileRunning
    <2>1. PICK w \in Workflows : wf' = [wf EXCEPT ![s] = w] /\ w.pc = After(s, op)
      BY <1>1, <1>2, GoOnIs
    <2>2. After(s, op) = "log" => wf[s].status = "running"
      BY DEF After, LoopHead
    <2>3. QED
      BY <1>1, <2>1, <2>2, ChangedLogs
  <1>3. CASE ActivityReads(s)
    BY <1>1, <1>3, ChangedLogs DEF ActivityReads
  <1>4. CASE ActivityWrites(s)
    <2>1. buf[s].op \in Ops
      BY <1>4 DEF ActivityWrites, JourneyInv, ActivityInv
    <2>2. GoOn(s, buf[s].op) \/ wf' = wf
      BY <1>4 DEF ActivityWrites
    <2>3. QED
      BY <1>1, <1>2, <2>1, <2>2, ChangedLogs
  <1>5. CASE ActivityFails(s)
    <2>1. Goto(s, "left") \/ Goto(s, "fail") \/ GoOn(s, "unwait")
      BY <1>5 DEF ActivityFails
    <2>2. QED
      BY <1>1, <1>2, <2>1, ChangedLogs DEF PCs, Ops, Over
  <1>6. CASE Begin(s) \/ WaitEnds(s) \/ ExecutionTimeout(s)
    <2>1. Goto(s, "enter") \/ Goto(s, "unwait") \/ Goto(s, "killed")
      BY <1>6 DEF Begin, WaitEnds, ExecutionTimeout
    <2>2. QED
      BY <1>1, <2>1, ChangedLogs DEF PCs, Ops, Over
  <1>7. QED
    BY <1>3, <1>4, <1>5, <1>6 DEF Work, WorkFails, WorkflowStep

LEMMA ActorLogs ==
    ASSUME JourneyInv, NEW a \in Actors,
           \/ a \in Deliveries /\ DeliveryStep(a)
           \/ a \in Requests /\ RequestStep(a)
           \/ Guard(a) \/ StartWorkflow(a) \/ StartFails(a)
           \/ Verdict(a) \/ ReadSession(a) \/ WriteSession(a)
    PROVE  LogsWhileRunning
  <1>1. JourneyTypes /\ JobOK(a) /\ job[a] \in Jobs
    BY JobIs DEF JourneyInv, JobsInv, JourneyTypes
  <1>2. CASE wf' = wf
    BY <1>2 DEF LogsWhileRunning
  <1>3. CASE ResumeWait(a)
    <2>1. PICK w \in job[a].todo : CompleteWait(w[1], w[2]) \/ wf' = wf
      BY <1>3 DEF ResumeWait
    <2>2. w[1] \in Sessions /\ w[2] \in Nodes
      BY <1>1, <2>1 DEF Jobs
    <2>3. QED
      BY <1>1, <1>2, <2>1, <2>2, SignalLogs DEF JourneyTypes
  <1>4. CASE StartWorkflow(a)
    <2>1. StartedSession(a) \in Sessions
      BY <1>1, <1>4 DEF StartWorkflow, StartedSession, Drawn, Fresh, Jobs
    <2>2. QED
      BY <1>1, <1>4, <2>1, SignalLogs DEF StartWorkflow, JourneyTypes
  <1>5. CASE Verdict(a) \/ Cancel(a) \/ Remove(a)
    <2>1. job[a].id \in Sessions
      BY <1>1, <1>5 DEF Verdict, Cancel, Remove, At, JobOK
    <2>2. Terminate(job[a].id) \/ CancelSignal(job[a].id) \/ wf' = wf
      BY <1>5 DEF Verdict, Cancel, Remove
    <2>3. QED
      BY <1>1, <1>2, <2>1, <2>2, SignalLogs DEF JourneyTypes
  <1>6. CASE \/ Take(a) \/ Complete(a) \/ Matched(a) \/ Claim(a) \/ FailDispatch(a) \/ Crash(a)
             \/ Manual(a) \/ CreateSession(a) \/ Open(a) \/ Drop(a)
             \/ Guard(a) \/ StartFails(a) \/ ReadSession(a) \/ WriteSession(a)
    <2>1. UNCHANGED workflowVars
      BY <1>6 DEF Take, Complete, Matched, Claim, FailDispatch, Crash, Manual, CreateSession, Open,
         Drop, Guard, StartFails, ReadSession, WriteSession
    <2>2. QED
      BY <1>2, <2>1 DEF workflowVars
  <1>7. QED
    BY <1>3, <1>4, <1>5, <1>6 DEF DeliveryStep, RequestStep

\* Whatever activity was in progress and whichever wait the workflow was in,
\* once it has taken the cancel signal it starts no further node.
THEOREM CancelledRunsStop == Spec => NoNodeAfterCancel
  <1>1. Init => JourneyInv
    BY JourneysInit
  <1>2. JourneyInv /\ [Next]_vars => JourneyInv'
    BY JourneysStep
  <1>3. ASSUME JourneyInv, [Next]_vars
        PROVE  [\A s \in Sessions :
                 wf[s].status = "failed" => (wf'[s].pc = "log" => wf[s].pc = "log")]_vars
    <2>1. CASE UNCHANGED vars
      BY <2>1
    <2>2. CASE Next
      <3>1. LogsWhileRunning
        <4>1. CASE RedisLost \/ WorkersDown \/ WorkersBack
          BY <4>1 DEF RedisLost, WorkersDown, WorkersBack, workflowVars, LogsWhileRunning
        <4>2. CASE \E s \in Sessions : Work(s) \/ WorkFails(s)
          BY <1>3, <4>2, WorkLogs
        <4>3. CASE \/ \E d \in Deliveries : DeliveryStep(d)
                   \/ \E r \in Requests : RequestStep(r)
                   \/ \E a \in Actors : \/ Guard(a) \/ StartWorkflow(a) \/ StartFails(a)
                                        \/ Verdict(a) \/ ReadSession(a) \/ WriteSession(a)
          BY <1>3, <4>3, ActorLogs DEF Actors
        <4>4. QED
          BY <2>2, <4>1, <4>2, <4>3 DEF Next
      <3>2. QED
        BY <3>1 DEF LogsWhileRunning
    <2>3. QED
      BY <1>3, <2>1, <2>2
  <1>4. QED
    BY <1>1, <1>2, <1>3, PTL DEF Spec, NoNodeAfterCancel

-------------------------------------------------------------------------------
(* ClickCounts: the row's count follows the clicks that were tracked.       *)

SyncStates == [pc : {"idle", "live", "query", "write"}, base : Nat, listed : Nat, seen : Nat]

\* The row never counts more than was tracked, and a synchronisation about to
\* write has seen at least as many clicks as the row had when it was listed.
CountInv ==
    /\ tracked \in Nat
    /\ count \in Nat
    /\ sync \in [Syncs -> SyncStates]
    /\ count <= tracked
    /\ \A s \in Syncs :
        /\ sync[s].base <= tracked
        /\ sync[s].seen <= tracked
        /\ sync[s].pc = "write" => sync[s].base <= sync[s].seen

\* A synchronisation that moves, with the row and the clicks as they are.
LEMMA SyncMove ==
    ASSUME CountInv, NEW s \in Syncs, NEW r \in SyncStates, sync' = [sync EXCEPT ![s] = r],
           tracked' = tracked, count' \in Nat, count' <= tracked,
           r.base <= tracked, r.seen <= tracked, r.pc = "write" => r.base <= r.seen
    PROVE  CountInv'
  BY DEF CountInv

LEMMA ListKeeps ==
    ASSUME CountInv, NEW s \in Syncs, ListLinks(s)  PROVE CountInv'
  <1> DEFINE r == [NoSync EXCEPT !.pc = "live", !.base = count, !.listed = count]
  <1>1. r \in SyncStates /\ r.base = count /\ r.seen = 0 /\ r.pc = "live"
    BY DEF NoSync, SyncStates, CountInv
  <1>2. QED
    BY <1>1, SyncMove DEF ListLinks, CountInv

LEMMA LiveKeeps ==
    ASSUME CountInv, NEW s \in Syncs, LiveCounts(s)  PROVE CountInv'
  <1>1. sync[s] \in SyncStates /\ sync[s].base <= tracked /\ sync[s].seen <= tracked
    BY DEF CountInv
  <1>2. PICK n \in Nat :
          sync' = [sync EXCEPT ![s] = [sync[s] EXCEPT !.pc = "query", !.listed = n]]
    <2>1. CASE sync' = [sync EXCEPT ![s].pc = "query",
                                    ![s].listed = IF tracked > 0 THEN tracked ELSE @]
      <3> DEFINE n == IF tracked > 0 THEN tracked ELSE sync[s].listed
      <3>1. n \in Nat
        BY <1>1 DEF CountInv, SyncStates
      <3>2. sync' = [sync EXCEPT ![s] = [sync[s] EXCEPT !.pc = "query", !.listed = n]]
        BY <1>1, <2>1 DEF CountInv, SyncStates
      <3>3. QED
        BY <3>1, <3>2
    <2>2. CASE sync' = [sync EXCEPT ![s].pc = "query"]
      BY <1>1, <2>2 DEF CountInv, SyncStates
    <2>3. QED
      BY <2>1, <2>2 DEF LiveCounts
  <1> DEFINE r == [sync[s] EXCEPT !.pc = "query", !.listed = n]
  <1>3. r \in SyncStates /\ r.base = sync[s].base /\ r.seen = sync[s].seen /\ r.pc = "query"
    BY <1>1 DEF SyncStates
  <1>4. QED
    BY <1>1, <1>2, <1>3, SyncMove DEF LiveCounts, CountInv

LEMMA QueryKeeps ==
    ASSUME CountInv, NEW s \in Syncs, QueryCounts(s)  PROVE CountInv'
  <1>1. sync[s] \in SyncStates /\ sync[s].base <= tracked
    BY DEF CountInv
  <1>2. CASE sync' = [sync EXCEPT ![s].pc = "write", ![s].seen = tracked]
    <2> DEFINE r == [sync[s] EXCEPT !.pc = "write", !.seen = tracked]
    <2>1. r \in SyncStates /\ r.base = sync[s].base /\ r.seen = tracked
      BY <1>1 DEF SyncStates, CountInv
    <2>2. sync' = [sync EXCEPT ![s] = r]
      BY <1>1, <1>2 DEF CountInv, SyncStates
    <2>3. QED
      BY <1>1, <2>1, <2>2, SyncMove DEF QueryCounts, CountInv
  <1>3. CASE sync' = [sync EXCEPT ![s] = NoSync]
    BY <1>3, SyncMove DEF QueryCounts, NoSync, SyncStates, CountInv
  <1>4. QED
    BY <1>2, <1>3 DEF QueryCounts

LEMMA WriteKeeps ==
    ASSUME CountInv, NEW s \in Syncs, WriteCount(s)  PROVE CountInv' /\ count' <= tracked
  <1>1. count' \in Nat /\ count' <= tracked
    BY DEF CountInv, SyncStates, WriteCount, Counted
  <1>2. QED
    BY <1>1, SyncMove DEF WriteCount, NoSync, SyncStates, CountInv

LEMMA CountInvStep == CountInv /\ [CountStep]_countVars => CountInv'
  <1> SUFFICES ASSUME CountInv, [CountStep]_countVars  PROVE CountInv'
    OBVIOUS
  <1>1. CASE TrackClick
    BY <1>1 DEF TrackClick, CountInv, SyncStates
  <1>2. CASE UNCHANGED countVars
    BY <1>2 DEF countVars, CountInv
  <1>3. QED
    BY <1>1, <1>2, ListKeeps, LiveKeeps, QueryKeeps, WriteKeeps DEF CountStep

\* Only a write changes the row, and it takes clicks back only when the row is no
\* longer what the synchronisation had listed.
LEMMA CountsFollow ==
    ASSUME CountInv, CountStep
    PROVE  /\ count' <= tracked
           /\ count' < count =>
                \E s \in Syncs : sync[s].pc = "write" /\ sync'[s] = NoSync /\ sync[s].base # count
  <1>1. ASSUME NEW s \in Syncs, WriteCount(s), count' < count
        PROVE  sync[s].pc = "write" /\ sync'[s] = NoSync /\ sync[s].base # count
    BY <1>1 DEF WriteCount, CountInv, SyncStates, Counted
  <1>2. CASE count' = count
    BY <1>2 DEF CountInv
  <1>3. CASE \E s \in Syncs : WriteCount(s)
    BY <1>1, <1>3, WriteKeeps
  <1>4. QED
    BY <1>2, <1>3 DEF CountStep, TrackClick, ListLinks, LiveCounts, QueryCounts

\* A synchronisation writes no click that was not tracked, and takes one back only
\* when another synchronisation has overtaken it, for any number of them at once.
THEOREM ClicksAreFollowed == CountInit /\ [][CountStep]_countVars => CountsFollowClicks
  <1>1. CountInit => CountInv
    BY DEF CountInit, CountInv, NoSync, SyncStates
  <1>2. CountInv /\ [CountStep]_countVars =>
          [ /\ count' <= tracked
            /\ count' < count =>
                \E s \in Syncs : sync[s].pc = "write" /\ sync'[s] = NoSync /\ sync[s].base # count
          ]_countVars
    BY CountsFollow
  <1>3. QED
    BY <1>1, <1>2, CountInvStep, PTL DEF CountsFollowClicks
===============================================================================
