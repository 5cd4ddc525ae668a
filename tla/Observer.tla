------------------------------- MODULE Observer -------------------------------
(***************************************************************************)
(* An observer agent: tool/observers/core/agent.py, with one watcher of    *)
(* tool/observers/watchers/ for its component, or a thread with a watcher  *)
(* of its own for each node in WATCHER_TARGETS, each in the polling loop of *)
(* core/watcher.py.  A watcher remembers what it saw last on each of its   *)
(* channels and emits an event for what changed; the events are what every *)
(* timing of a failover is computed from.                                  *)
(*                                                                         *)
(* The component answers a poll with anything it could show, or the poll   *)
(* fails.  The answers are kept, so that the properties can compare the    *)
(* watcher, which sees one at a time, with the whole history.  What an     *)
(* emitter does with its events is in module Emitter; here it is open or   *)
(* closed.                                                                 *)
(***************************************************************************)
EXTENDS Naturals, Sequences, FiniteSets, Functions

CONSTANTS
    Components,     \* the values of OBSERVER_COMPONENT that occur
    PatroniShows,   \* what a Patroni node can answer: its role, state and timeline
    TargetLists,    \* the values of WATCHER_TARGETS, as sequences of entries
    MaxPolls,       \* bound: polls of the one watcher, with that of setup()
    MaxPollsMulti   \* bound: polls of all the threads together

VARIABLES
    component,  \* OBSERVER_COMPONENT
    entries,    \* WATCHER_TARGETS
    main,       \* where the main thread is
    next,       \* the watcher its loop is at
    pc,         \* where run() of each watcher is
    running,    \* _running of each watcher
    answers,    \* the answers to the polls of each watcher
    memory,     \* the _last_... attributes of each watcher, by channel
    events,     \* the events each watcher emitted, in order
    closed      \* the watchers whose emitter was stopped

vars == <<component, entries, main, next, pc, running, answers, memory, events, closed>>

settings == <<component, entries>>
history  == <<answers, memory, events>>

\* Entries that are no name:value pair.
Blank     == ""
Malformed == "malformed"

\* WATCHER_TARGET_KWARG: the others fall back to the one watcher.
MultiTarget == entries # <<>> /\ component \in {"patroni", "postgres"}

\* _parse_targets(): the positions of the entries that name a target.
ParsedTargets == {i \in DOMAIN entries : entries[i] \notin {Blank, Malformed}}

\* The watchers built: one per target, in their order, or the one for NODE_NAME.
Watchers == IF MultiTarget THEN 1..Cardinality(ParsedTargets) ELSE {1}

None   == "none"      \* Python's None, of an attribute
Absent == "absent"    \* not in the answer: HTTP 404, no such CSV row, no "timeline"

\* A role or a state may be any text; a node that is not running has no timeline.
ASSUME ObserverAssumption ==
    /\ Components \subseteq {"patroni", "consul", "haproxy", "postgres", "vip"}
    /\ PatroniShows \subseteq [role : STRING \ {"", None, Absent, "unreachable"},
                             state : STRING \ {"", None, Absent, "unreachable"},
                             timeline : STRING \ {None}]
    /\ \A l \in TargetLists : l \in Seq(STRING)
    /\ {MaxPolls, MaxPollsMulti} \subseteq Nat

\* What the component shows on each channel.
Shows ==
    CASE component = "patroni"  -> PatroniShows
      [] component = "consul"   -> [leader : {"node1", "node2", Absent}]
      [] component = "haproxy"  -> [server1 : {"UP", "DOWN", Absent},
                                    server2 : {"UP", "DOWN"}]
      [] component = "postgres" -> [recovery : {"primary", "in_recovery"},
                                    timeline : {"1", "2"}]
      [] component = "vip"      -> [vip : {"bound", "unbound"}]

Channels ==
    CASE component = "patroni"  -> {"role", "state", "timeline"}
      [] component = "consul"   -> {"leader"}
      [] component = "haproxy"  -> {"server1", "server2"}
      [] component = "postgres" -> {"recovery", "timeline", "reachable"}
      [] component = "vip"      -> {"vip"}

\* The request, the connection or the command failed; requests counts an
\* answer that is no JSON among the failed requests.
Failed == [answered |-> FALSE]
Answer(seen) == [answered |-> TRUE, seen |-> seen]

Answers == {Failed} \cup {Answer(seen) : seen \in Shows}

-----------------------------------------------------------------------------
(* One poll.  Each watcher says which events an answer gives and what it    *)
(* remembers of it, given what it remembered before (mem); `initial` is     *)
(* emit_initial, the poll made by setup().                                  *)

Event(mem, type, channel, new) ==
    [type |-> type, channel |-> channel, old |-> mem[channel], new |-> new]

\* if new != last: if last is not None or emit_initial: emit.
Changes(mem, type, channel, new, initial) ==
    IF new # mem[channel] /\ (mem[channel] # None \/ initial)
    THEN <<Event(mem, type, channel, new)>>
    ELSE <<>>

\* The timeline as the watcher has it.
TimelineOf(seen) == IF seen.timeline = Absent THEN None ELSE seen.timeline

\* A state that was never seen counts as "unknown" once the node cannot be reached.
LostState(mem) == IF mem.state = None THEN "unknown" ELSE mem.state

\* PatroniWatcher: a failed request is a state of its own, a missing timeline is none.
PatroniEvents(mem, answer, initial) ==
    IF answer.answered
    THEN Changes(mem, "role_change", "role", answer.seen.role, initial)
         \o Changes(mem, "node_state_change", "state", answer.seen.state, initial)
         \o Changes(mem, "timeline_change", "timeline", TimelineOf(answer.seen), FALSE)
    ELSE Changes([mem EXCEPT !.state = LostState(mem)], "node_state_change", "state", "unreachable", TRUE)

PatroniMemory(mem, answer) ==
    IF answer.answered
    THEN [role |-> answer.seen.role, state |-> answer.seen.state, timeline |-> TimelineOf(answer.seen)]
    ELSE [mem EXCEPT !.state = "unreachable"]

\* ConsulWatcher: a failed request says nothing, a missing key does.
LeaderChange(mem, leader, initial) ==
    IF mem.leader = None /\ ~initial THEN "leader_key_created" ELSE "leader_key_change"

ConsulEvents(mem, answer, initial) ==
    IF ~answer.answered THEN <<>>
    ELSE IF answer.seen.leader = Absent
         THEN Changes(mem, "leader_key_deleted", "leader", None, FALSE)
         ELSE Changes(mem, LeaderChange(mem, answer.seen.leader, initial), "leader", answer.seen.leader, TRUE)

\* Mistake: the missing key is remembered like a value.
ConsulMemoryAbsent(mem, answer) == IF answer.answered THEN answer.seen ELSE mem

ConsulMemory(mem, answer) ==
    IF ~answer.answered THEN mem
    ELSE IF answer.seen.leader = Absent THEN [leader |-> None] ELSE answer.seen

\* HAProxyWatcher: a server that is not listed is forgotten.
HaproxyEvents(mem, answer, initial) ==
    LET server(s) == IF answer.answered /\ answer.seen[s] # Absent
                     THEN Changes(mem, "backend_state_change", s, answer.seen[s], initial)
                     ELSE <<>>
    IN  server("server1") \o server("server2")

HaproxyMemory(mem, answer) ==
    IF ~answer.answered THEN mem
    ELSE [s \in Channels |-> IF answer.seen[s] = Absent THEN None ELSE answer.seen[s]]

\* PostgresSQLWatcher: reachable is "yes", "no" or not known yet.
RecoveryChange(mem, recovery) ==
    IF mem.recovery = None THEN "pg_state_detected"
    ELSE IF recovery = "primary" THEN "pg_promote_detected" ELSE "pg_demote_detected"

PostgresEvents(mem, answer, initial) ==
    IF answer.answered
    THEN (IF mem.reachable = "no"
          THEN <<Event(mem, "pg_ready_accept_connections", "reachable", "yes")>> ELSE <<>>)
         \o Changes(mem, RecoveryChange(mem, answer.seen.recovery), "recovery", answer.seen.recovery, initial)
         \o Changes(mem, "pg_timeline_change", "timeline", answer.seen.timeline, FALSE)
    ELSE Changes(mem, "pg_connection_lost", "reachable", "no", FALSE)

\* Mistake: a lost connection forgets the role.
PostgresMemoryForgets(mem, answer) ==
    IF answer.answered
    THEN [recovery |-> answer.seen.recovery, timeline |-> answer.seen.timeline, reachable |-> "yes"]
    ELSE [recovery |-> None, timeline |-> None, reachable |-> "no"]

PostgresMemory(mem, answer) ==
    IF answer.answered
    THEN [recovery |-> answer.seen.recovery, timeline |-> answer.seen.timeline, reachable |-> "yes"]
    ELSE [mem EXCEPT !.reachable = "no"]

\* VIPWatcher: a command that timed out, or is not there, says nothing.
VipEvents(mem, answer, initial) ==
    IF answer.answered THEN Changes(mem, "vip_state_change", "vip", answer.seen.vip, initial) ELSE <<>>

VipMemory(mem, answer) == IF answer.answered THEN answer.seen ELSE mem

Emitted(mem, answer, initial) ==
    CASE component = "patroni"  -> PatroniEvents(mem, answer, initial)
      [] component = "consul"   -> ConsulEvents(mem, answer, initial)
      [] component = "haproxy"  -> HaproxyEvents(mem, answer, initial)
      [] component = "postgres" -> PostgresEvents(mem, answer, initial)
      [] component = "vip"      -> VipEvents(mem, answer, initial)

Remembered(mem, answer) ==
    CASE component = "patroni"  -> PatroniMemory(mem, answer)
      [] component = "consul"   -> ConsulMemory(mem, answer)
      [] component = "haproxy"  -> HaproxyMemory(mem, answer)
      [] component = "postgres" -> PostgresMemory(mem, answer)
      [] component = "vip"      -> VipMemory(mem, answer)

Dated(e, poll) ==
    [type |-> e.type, channel |-> e.channel, old |-> e.old, new |-> e.new, poll |-> poll]

Polls == FoldFunction(LAMBDA a, n : Len(a) + n, 0, answers)

Observe(w, initial) ==
    /\ Polls < IF MultiTarget THEN MaxPollsMulti ELSE MaxPolls
    /\ \E answer \in Answers :
          LET emitted == Emitted(memory[w], answer, initial)
              poll    == Len(answers[w]) + 1
          IN  /\ answers' = [answers EXCEPT ![w] = Append(@, answer)]
              /\ memory'  = [memory EXCEPT ![w] = Remembered(@, answer)]
              /\ events'  = [events EXCEPT ![w] =
                               @ \o [i \in DOMAIN emitted |-> Dated(emitted[i], poll)]]
    /\ UNCHANGED <<settings, main, next, running, closed>>

-----------------------------------------------------------------------------
(* The threads.  With one watcher the main thread runs it itself, which is  *)
(* starting it and waiting for it.                                          *)

Init ==
    /\ component \in Components
    /\ entries \in TargetLists
    /\ main = "configure"
    /\ next = 1
    /\ pc = [w \in Watchers |-> "created"]
    /\ running = [w \in Watchers |-> FALSE]
    /\ answers = [w \in Watchers |-> <<>>]
    /\ memory = [w \in Watchers |-> [c \in Channels |-> None]]
    /\ events = [w \in Watchers |-> <<>>]
    /\ closed = {}

Goto(w, from, to) == pc[w] = from /\ pc' = [pc EXCEPT ![w] = to]

Ended == {"stopped", "crashed"}

\* A variable is missing, the watcher cannot be loaded, or no target is valid.
Refuse ==
    /\ main = "configure"
    /\ main' = "exit1"
    /\ UNCHANGED <<settings, next, pc, running, history, closed>>

\* main() until the signal handlers are installed.
Configure ==
    /\ main = "configure"
    /\ Watchers # {}
    /\ main' = "start"
    /\ UNCHANGED <<settings, next, pc, running, history, closed>>

\* One step of a loop over the watchers; after the last one main goes on.
Advance(then) ==
    IF next = Cardinality(Watchers)
    THEN next' = 1 /\ main' = then
    ELSE next' = next + 1 /\ main' = main

StartThread ==
    /\ main = "start"
    /\ Goto(next, "created", "started")
    /\ Advance("join")
    /\ UNCHANGED <<settings, running, history, closed>>

\* Mistake: only the first thread is waited for.
JoinFirst ==
    /\ main = "join"
    /\ pc[1] \in Ended
    /\ Advance("close")
    /\ UNCHANGED <<settings, pc, running, history, closed>>

Join ==
    /\ main = "join"
    /\ pc[next] \in Ended
    /\ Advance("close")
    /\ UNCHANGED <<settings, pc, running, history, closed>>

\* Only the one watcher hands its exception on.
ExitStatus == IF ~MultiTarget /\ pc[1] = "crashed" THEN "exit1" ELSE "exit0"

StopEmitter ==
    /\ main = "close"
    /\ closed' = closed \cup {next}
    /\ Advance(ExitStatus)
    /\ UNCHANGED <<settings, pc, running, history>>

\* run(): the flag is set, whatever stop() did before.
Run(w) ==
    /\ Goto(w, "started", "setup")
    /\ running' = [running EXCEPT ![w] = TRUE]
    /\ UNCHANGED <<settings, main, next, history, closed>>

Setup(w) == Goto(w, "setup", "test") /\ Observe(w, TRUE)

\* An answer of a shape the watcher does not expect raises out of setup().
SetupRaises(w) ==
    /\ Goto(w, "setup", "crashed")
    /\ UNCHANGED <<settings, main, next, running, history, closed>>

\* Mistake: the flag is not tested again.
TestNever(w) == Goto(w, "test", "poll")

Test(w) == Goto(w, "test", IF running[w] THEN "poll" ELSE "stopped")

LoopTest(w) ==
    /\ Test(w)
    /\ UNCHANGED <<settings, main, next, running, history, closed>>

Poll(w) == Goto(w, "poll", "test") /\ Observe(w, FALSE)

\* poll() raised before it looked at the answer: a warning.
PollRaises(w) ==
    /\ Goto(w, "poll", "test")
    /\ UNCHANGED <<settings, main, next, running, history, closed>>

\* SIGINT or SIGTERM, once the handler is installed: stop() of every watcher.
Signal ==
    /\ main \in {"start", "join", "close"}
    /\ running' = [w \in Watchers |-> FALSE]
    /\ UNCHANGED <<settings, main, next, pc, history, closed>>

WatcherStep(w) ==
    Run(w) \/ Setup(w) \/ SetupRaises(w) \/ LoopTest(w) \/ Poll(w) \/ PollRaises(w)

MainStep == Refuse \/ Configure \/ StartThread \/ Join \/ StopEmitter

Next == MainStep \/ (\E w \in Watchers : WatcherStep(w)) \/ Signal

Spec == Init /\ [][Next]_vars

\* What a thread does without waiting for anyone: it goes on.
MainGoesOn == Refuse \/ Configure \/ StartThread \/ Join

WatcherGoesOn(w) == w \in Watchers /\ (Run(w) \/ LoopTest(w))

\* A query to PostgreSQL has no timeout, and an event is stored, by emit_now() in the
\* poll and by the final flush in stop(), over a connection that has none
\* (postgres_sql_watcher.py:87, emitter.py:93 and 128, agent.py:159): polls and final
\* flushes need not end, and what follows from their ending says so.
PollsReturn(w) ==
    WF_vars(w \in Watchers /\ (Setup(w) \/ SetupRaises(w) \/ Poll(w) \/ PollRaises(w)))

FlushesReturn == WF_vars(StopEmitter)

\* The watchers there may be.
Numbers ==
    {1} \cup UNION {1..Cardinality({i \in DOMAIN l : l[i] \notin {Blank, Malformed}}) :
                       l \in TargetLists}

\* Threads are scheduled.
FairSpec == Spec /\ WF_vars(MainGoesOn) /\ \A w \in Numbers : WF_vars(WatcherGoesOn(w))

-----------------------------------------------------------------------------
(* Properties *)

PatroniValues(c) == {seen[c] : seen \in PatroniShows}

Values ==
    {None, "unknown", "unreachable", "primary", "1", "2", "node1", "node2", "UP", "DOWN",
     "in_recovery", "yes", "no", "bound", "unbound"}
    \cup PatroniValues("role") \cup PatroniValues("state")
    \cup (PatroniValues("timeline") \ {Absent})

TypeOK ==
    /\ component \in Components /\ entries \in TargetLists
    /\ main \in {"configure", "start", "join", "close", "exit0", "exit1"}
    /\ next \in {1} \cup Watchers
    /\ closed \subseteq Watchers
    /\ pc \in [Watchers -> {"created", "started", "setup", "test", "poll"} \cup Ended]
    /\ running \in [Watchers -> BOOLEAN]
    /\ memory \in [Watchers -> [Channels -> Values]]
    /\ \A w \in Watchers :
          /\ \A i \in DOMAIN answers[w] : answers[w][i] \in Answers
          /\ \A i \in DOMAIN events[w] :
                /\ events[w][i].channel \in Channels
                /\ {events[w][i].old, events[w][i].new} \subseteq Values
                /\ events[w][i].poll \in DOMAIN answers[w]

(* What the history of the answers of one watcher says of a channel. *)

\* A failed poll tells only that the node cannot be reached.
Tells(a, c) == a.answered \/ c = "reachable" \/ (component = "patroni" /\ c = "state")

Value(a, c) ==
    IF ~a.answered THEN IF c = "reachable" THEN "no" ELSE "unreachable"
    ELSE IF c = "reachable" THEN "yes" ELSE a.seen[c]

Earlier(w, i, c) == {j \in 1..(i - 1) : Tells(answers[w][j], c)}

\* The value before poll i, in a set: none while nothing was told.
ValueBefore(w, i, c) ==
    {Value(answers[w][j], c) :
        j \in {k \in Earlier(w, i, c) : \A l \in Earlier(w, i, c) : l <= k}}

\* Channels whose first value is announced, if setup() sees it.
Announced == {"role", "state", "leader", "server1", "server2", "recovery", "vip"}

ToldOfChange(w, i, c) ==
    LET value  == Value(answers[w][i], c)
        before == ValueBefore(w, i, c)
    IN  /\ Tells(answers[w][i], c)
        /\ \/ /\ \E v \in before : v # value
              /\ component = "haproxy" => Absent \notin before \cup {value}
              /\ component = "patroni" => Absent \notin before
           \/ /\ before = {}
              /\ value # Absent
              /\ c \in Announced
              /\ i = 1 \/ c = "leader" \/ value = "unreachable"

\* What a watcher reports, remembering one value per channel, is what the
\* whole history of its polls says: one event for each change between two
\* answers, however many polls failed in between, one for the state found at
\* the start, and nothing else (the _poll_ and _fetch_ methods of the watchers).
\* Two things come back without an event: a server of HAProxy that was not listed,
\* and the timeline of a Patroni node that had none (patroni_watcher.py:95).
EventsAreTheChanges ==
    \A w \in Watchers : \A i \in DOMAIN answers[w] : \A c \in Channels :
        Cardinality({e \in DOMAIN events[w] :
                        events[w][e].poll = i /\ events[w][e].channel = c})
            = IF ToldOfChange(w, i, c) THEN 1 ELSE 0

\* The final flush of an emitter is the end of its events: no watcher emits to
\* an emitter that main() or _run_multi_target() stopped, even when some
\* watchers crashed and others still poll, and an agent that ends after it
\* started its watchers has flushed them all (agent.py:156-161 and 235-241).
EmittersOutliveWatchers ==
    /\ \A w \in closed : pc[w] \in Ended
    /\ main \in {"exit0", "exit1"} /\ (\E w \in Watchers : pc[w] # "created")
       => closed = Watchers

\* The watcher ended, or found a signal after run() began.  A signal before run() set
\* its flag is lost (watcher.py:54).
Stopping(w) ==
    w \in Watchers /\ (pc[w] \in Ended \/ (pc[w] \in {"setup", "test", "poll"} /\ ~running[w]))

\* A watcher whose own polls end stops after a signal, whatever the polls answer,
\* however many raise and whichever other watcher or final flush hangs; and once all
\* are stopping, the agent ends, if no poll and no final flush hangs.  One frozen
\* database holds the agent for ever, but not the watchers of the others.
StopEndsAgent ==
    /\ \A w \in Numbers : PollsReturn(w) => (Stopping(w) ~> w \in Watchers /\ pc[w] \in Ended)
    /\ (\A w \in Numbers : PollsReturn(w)) /\ FlushesReturn
       => ((\A w \in Watchers : Stopping(w)) ~> main \in {"exit0", "exit1"})

=============================================================================
