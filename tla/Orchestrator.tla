----------------------------- MODULE Orchestrator -----------------------------
(***************************************************************************)
(* The orchestrator's handlers of the deploy cycle (orchestrator/app.py),  *)
(* the Docker state they change, and the dashboard's HTTP client           *)
(* (dashboard/app/services/orchestrator_client.py).                        *)
(*                                                                         *)
(* Handlers run in threads of one process, take no lock, and act on two    *)
(* containers known by fixed names.  A handler is modelled by its Docker   *)
(* calls, one step each; between two of them any other handler may run,    *)
(* and each of them may raise, which makes the handler answer an error.    *)
(* The client may stop waiting (timeout, reset connection): the handler    *)
(* then runs to its end with nobody to hear the answer.                    *)
(***************************************************************************)
EXTENDS Revisions

CONSTANTS
  Requests,   \* dashboard threads, each with at most one call in flight
  Torn,       \* a tree mixed from several revisions, or part of one
  Sound       \* the trees whose application answers its health check

(* The content of a revision goes by the name of the revision.             *)
Trees == Shas \cup {Torn}

ASSUME OrchestratorAssumption ==
  /\ Torn \notin Shas
  /\ None \notin Trees
  /\ None \notin Requests
  /\ Sound \subseteq Trees

VARIABLES
  call,       \* the call of each request: where its handler is, or its answer
  source,     \* content of the build context, the mounted source/ directory
  context,    \* what each build in progress was given to build
  images,     \* content of each tagged image
  app,        \* the container traffic is routed to
  candidate,  \* the unrouted container that is probed
  proved      \* history: trees that answered a probe with a healthy status

dockerVars == <<context, images, app, candidate, proved>>

HandlerSteps ==
  {"build", "build_tag", "candidate_remove", "candidate_create", "candidate_start",
   "probe", "discard", "app_remove", "app_create", "app_start", "app_clean"}
Answers == {"ok", "healthy", "unhealthy", "error"}

(* open: the client is still waiting.                                      *)
NoCall == [at |-> "none", sha |-> None, open |-> FALSE]
Calls == [at : HandlerSteps, sha : Shas, open : BOOLEAN]
           \cup [at : Answers, sha : Shas, open : {TRUE}] \cup {NoCall}

NoContainer == [by |-> None, sha |-> None, tree |-> None, running |-> FALSE]
Containers ==
  [by : Requests, sha : Shas, tree : Trees, running : BOOLEAN] \cup {NoContainer}

OrchestratorTypeOK ==
  /\ call \in [Requests -> Calls]
  /\ source \in Trees \cup {None}
  /\ context \in [Requests -> Trees \cup {None}]
  /\ images \in [Shas -> Trees \cup {None}]
  /\ app \in Containers
  /\ candidate \in Containers
  /\ proved \subseteq Trees

OrchestratorInit ==
  /\ call = [r \in Requests |-> NoCall]
  /\ source = None
  /\ context = [r \in Requests |-> None]
  /\ images = [s \in Shas |-> None]
  /\ app = NoContainer
  /\ candidate = NoContainer
  /\ proved = {}

-----------------------------------------------------------------------------
(* The client's side of a call.                                            *)

Open(r, step, sha) ==
  call' = [call EXCEPT ![r] = [at |-> step, sha |-> sha, open |-> TRUE]]

(* The client takes its answer; a call it gave up on stays where it is.    *)
Consume(r) ==
  call' = IF call[r].open THEN [call EXCEPT ![r] = NoCall] ELSE call

Succeeded(r) == call[r].open /\ call[r].at = "ok"
(* HTTP 4xx/5xx, an unreachable server and a timeout all raise the same    *)
(* OrchestratorError.                                                      *)
Broken(r) == ~call[r].open \/ call[r].at = "error"

(* The client stops waiting.  A probe changes nothing, so its handler is   *)
(* not followed further.                                                   *)
GiveUp(r) ==
  /\ call[r].open
  /\ call[r].at \in HandlerSteps
  /\ call' = IF call[r].at = "probe"
               THEN [call EXCEPT ![r].at = "error"]
               ELSE [call EXCEPT ![r].open = FALSE]
  /\ UNCHANGED <<source, dockerVars>>

-----------------------------------------------------------------------------
(* The handlers.                                                           *)

At(r, step) == call[r].at = step
Advance(r, step) == call' = [call EXCEPT ![r].at = step]
Respond(r, answer) ==
  call' = IF call[r].open THEN [call EXCEPT ![r].at = answer]
                          ELSE [call EXCEPT ![r] = NoCall]

(* The last Docker call of a handler took effect; it may still raise       *)
(* (docker-py gives up after 180 s), and the answer is then an error.      *)
Finish(r) == \E answer \in {"ok", "error"} : Respond(r, answer)

(* Any Docker call of the handler raises, or the process dies under it.    *)
DockerFails(r) ==
  /\ call[r].at \in HandlerSteps
  /\ Respond(r, "error")
  /\ context' = [context EXCEPT ![r] = None]
  /\ UNCHANGED <<source, images, app, candidate, proved>>

(* /build: what is built is whatever source/ holds when the context is     *)
(* packed; the tag is the sha the caller named, and is set when the build  *)
(* is over, minutes later.                                                 *)
BuildRead(r) ==
  /\ At(r, "build")
  /\ source # None
  /\ context' = [context EXCEPT ![r] = source]
  /\ Advance(r, "build_tag")
  /\ UNCHANGED <<source, images, app, candidate, proved>>

BuildTag(r) ==
  /\ At(r, "build_tag")
  /\ images' = [images EXCEPT ![call[r].sha] = context[r]]
  /\ context' = [context EXCEPT ![r] = None]
  /\ Finish(r)
  /\ UNCHANGED <<source, app, candidate, proved>>

(* /candidate/start                                                        *)
CandidateRemove(r) ==
  /\ At(r, "candidate_remove")
  /\ candidate' = NoContainer
  /\ Advance(r, "candidate_create")
  /\ UNCHANGED <<source, context, images, app, proved>>

(* Creating a container needs its image and a free name.                   *)
NewContainer(r) ==
  [by |-> r, sha |-> call[r].sha, tree |-> images[call[r].sha], running |-> FALSE]

CandidateCreate(r) ==
  /\ At(r, "candidate_create")
  /\ candidate = NoContainer
  /\ images[call[r].sha] # None
  /\ candidate' = NewContainer(r)
  /\ Advance(r, "candidate_start")
  /\ UNCHANGED <<source, context, images, app, proved>>

(* container.start() goes by id: it fails if the container was replaced.   *)
CandidateStart(r) ==
  /\ At(r, "candidate_start")
  /\ candidate.by = r
  /\ candidate' = [candidate EXCEPT !.running = TRUE]
  /\ Finish(r)
  /\ UNCHANGED <<source, context, images, app, proved>>

(* /candidate/probe-health asks whatever answers to the candidate's name;  *)
(* a sound application may still be starting.                              *)
ProbeHealthy(r) ==
  /\ At(r, "probe")
  /\ candidate.running
  /\ candidate.tree \in Sound
  /\ proved' = proved \cup {candidate.tree}
  /\ Respond(r, "healthy")
  /\ UNCHANGED <<source, context, images, app, candidate>>

ProbeUnhealthy(r) ==
  /\ At(r, "probe")
  /\ Respond(r, "unhealthy")
  /\ UNCHANGED <<source, dockerVars>>

(* /candidate/discard                                                      *)
Discard(r) ==
  /\ At(r, "discard")
  /\ candidate' = NoContainer
  /\ Finish(r)
  /\ UNCHANGED <<source, context, images, app, proved>>

(* /activate: remove the app container, create it anew, join it to         *)
(* Traefik's network and start it, remove the candidate.                   *)
AppRemove(r) ==
  /\ At(r, "app_remove")
  /\ app' = NoContainer
  /\ Advance(r, "app_create")
  /\ UNCHANGED <<source, context, images, candidate, proved>>

AppCreate(r) ==
  /\ At(r, "app_create")
  /\ app = NoContainer
  /\ images[call[r].sha] # None
  /\ app' = NewContainer(r)
  /\ Advance(r, "app_start")
  /\ UNCHANGED <<source, context, images, candidate, proved>>

AppStart(r) ==
  /\ At(r, "app_start")
  /\ app.by = r
  /\ app' = [app EXCEPT !.running = TRUE]
  /\ Advance(r, "app_clean")
  /\ UNCHANGED <<source, context, images, candidate, proved>>

AppClean(r) ==
  /\ At(r, "app_clean")
  /\ candidate' = NoContainer
  /\ Finish(r)
  /\ UNCHANGED <<source, context, images, app, proved>>

Handler(r) ==
  \/ DockerFails(r)
  \/ BuildRead(r) \/ BuildTag(r)
  \/ CandidateRemove(r) \/ CandidateCreate(r) \/ CandidateStart(r)
  \/ ProbeHealthy(r) \/ ProbeUnhealthy(r)
  \/ Discard(r)
  \/ AppRemove(r) \/ AppCreate(r) \/ AppStart(r) \/ AppClean(r)

(* The operator's start and stop buttons (restart is a stop and a start)   *)
(* reach Docker directly, and only the app container.                      *)
OperateApp(running) ==
  /\ app # NoContainer
  /\ app' = [app EXCEPT !.running = running]
  /\ UNCHANGED <<call, source, context, images, candidate, proved>>
=============================================================================
