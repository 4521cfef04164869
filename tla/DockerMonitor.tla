---------------------------- MODULE DockerMonitor ----------------------------
(***************************************************************************)
(* The desktop utility's DockerMonitorService and its listener in          *)
(* index.ts.  A poll lists the containers and inspects one after the       *)
(* other, waiting for each; nothing keeps a poll from being overtaken by   *)
(* the next, and a poll goes on when polling is stopped.  What follows the *)
(* last answer happens at once: the comparison with the poll before, the   *)
(* event, the notifications and the new cache.                             *)
(*                                                                         *)
(* A container is "up", "sick" (up and not healthy), "down" (exited or     *)
(* dead) or "gone"; a paused or restarting one is not modelled.            *)
(***************************************************************************)
EXTENDS Integers, SequencesExt

CONSTANTS
  Containers,
  MaxPolls,    \* bound: polls under way
  MaxChanges,  \* bound: changes of containers
  MaxFaults,   \* bound: requests that fail
  MaxOps       \* bound: calls of connect, startPolling and stopPolling

VARIABLES
  real,      \* what each container is
  docker,    \* whether there is a client, `this.docker'
  connects,  \* calls of connect that wait for its answer
  timers,    \* timers that start polls
  polling,   \* isPolling, and that there is a pollingInterval to clear
  polls,     \* the polls under way: what is listed and not inspected, what was seen
  cache,     \* lastContainers
  told,      \* the containers of the last containersChanged
  stops,     \* how often each container stopped
  alarms,    \* how often it was notified that one has stopped
  clean,     \* no two polls overlapped, no inspection of a container failed
  changes, faults, ops

vars == <<real, docker, connects, timers, polling, polls, cache, told, stops, alarms, clean,
          changes, faults, ops>>
service == <<docker, connects, timers, polling, polls, clean>>
listener == <<cache, told, alarms>>
world == <<real, stops, changes>>

Running(look) == look \in {"up", "sick"}

Init ==
  /\ real \in [Containers -> {"gone", "up", "down"}]
  /\ docker = FALSE /\ connects = 0
  /\ timers = 0 /\ polling = FALSE /\ polls = <<>>
  /\ cache = <<>> /\ told = <<>>
  /\ stops = [c \in Containers |-> 0] /\ alarms = [c \in Containers |-> 0]
  /\ clean = TRUE
  /\ changes = 0 /\ faults = 0 /\ ops = 0

\* connect: there is a client from now on, whatever comes of it.
connect ==
  /\ ops < MaxOps /\ ops' = ops + 1
  /\ docker' = TRUE /\ connects' = connects + 1
  /\ UNCHANGED <<timers, polling, polls, clean, listener, world, faults>>

\* A new poll asks for the list; without a client it throws, and polls nothing.
Begun == IF docker THEN Append(polls, [stage |-> "list", todo |-> {}, seen |-> <<>>]) ELSE polls
Overlaps == docker /\ polls # <<>>

\* Mutant of Started: every call begins to poll.
StartedAgain ==
  /\ polling' = TRUE /\ timers' = timers + 1
  /\ polls' = Begun /\ clean' = (clean /\ ~Overlaps)

\* startPolling: the first poll begins at once.
Started ==
  IF polling THEN UNCHANGED <<timers, polling, polls, clean>>
  ELSE /\ polling' = TRUE /\ timers' = timers + 1
       /\ polls' = Begun /\ clean' = (clean /\ ~Overlaps)

Room == Len(polls) < MaxPolls

\* connect succeeds, and index.ts begins to poll.
Connected ==
  /\ connects > 0 /\ Room
  /\ connects' = connects - 1
  /\ Started
  /\ UNCHANGED <<docker, listener, world, faults, ops>>

\* connect fails: the client is gone, the one of polls under way too.
ConnectFailed ==
  /\ connects > 0 /\ faults < MaxFaults
  /\ connects' = connects - 1 /\ docker' = FALSE /\ faults' = faults + 1
  /\ UNCHANGED <<timers, polling, polls, clean, listener, world, ops>>

\* stopPolling clears the timer; polls under way go on.
stopPolling ==
  /\ ops < MaxOps /\ ops' = ops + 1
  /\ polling' = FALSE /\ timers' = IF polling THEN timers - 1 ELSE timers
  /\ UNCHANGED <<docker, connects, polls, clean, listener, world, faults>>

\* A new interval, and a reset of the settings: stopPolling, then startPolling.
Restart ==
  /\ ops < MaxOps /\ ops' = ops + 1
  /\ Room
  /\ polling' = TRUE /\ timers' = IF polling THEN timers ELSE timers + 1
  /\ polls' = Begun /\ clean' = (clean /\ ~Overlaps)
  /\ UNCHANGED <<docker, connects, listener, world, faults>>

Tick ==
  /\ timers > 0 /\ docker /\ Room
  /\ polls' = Begun /\ clean' = (clean /\ ~Overlaps)
  /\ UNCHANGED <<docker, connects, timers, polling, listener, world, faults, ops>>

\* getContainers: listContainers answers.
Listed(i) ==
  /\ polls[i].stage = "list"
  /\ polls' = [polls EXCEPT ![i] =
                 [stage |-> "inspect", todo |-> {c \in Containers : real[c] # "gone"}, seen |-> <<>>]]
  /\ UNCHANGED <<docker, connects, timers, polling, clean, listener, world, faults, ops>>

ListFails(i) ==
  /\ polls[i].stage = "list" /\ faults < MaxFaults
  /\ faults' = faults + 1
  /\ polls' = RemoveAt(polls, i)
  /\ UNCHANGED <<docker, connects, timers, polling, clean, listener, world, ops>>

With(seen, c) == [d \in DOMAIN seen \cup {c} |-> IF d = c THEN real[c] ELSE seen[d]]

\* A container that answers; one that is gone is left out.
Inspected(i, c) ==
  /\ c \in polls[i].todo /\ docker
  /\ polls' = [polls EXCEPT ![i] =
                 [stage |-> "inspect", todo |-> @.todo \ {c},
                  seen |-> IF real[c] = "gone" THEN @.seen ELSE With(@.seen, c)]]
  /\ UNCHANGED <<docker, connects, timers, polling, clean, listener, world, faults, ops>>

\* A container that does not answer, or that cannot be asked for want of a client, is left
\* out too, as if it were gone.
NotInspected(i, c) ==
  /\ c \in polls[i].todo
  /\ IF docker THEN faults < MaxFaults /\ faults' = faults + 1 ELSE UNCHANGED faults
  /\ polls' = [polls EXCEPT ![i].todo = @ \ {c}]
  /\ clean' = FALSE
  /\ UNCHANGED <<docker, connects, timers, polling, listener, world, ops>>

\* Mutant of Changed: a change of health is no change.
ChangedState(seen) ==
  \/ DOMAIN seen # DOMAIN cache
  \/ \E c \in DOMAIN seen : Running(seen[c]) # Running(cache[c])

\* Whether containers came or went, or one has another state or health.
Changed(seen) ==
  \/ DOMAIN seen # DOMAIN cache
  \/ \E c \in DOMAIN seen : seen[c] # cache[c]

\* Mutant of StopsTold: every container that is down is notified.
StopsToldAgain(seen) == {c \in DOMAIN told : c \notin DOMAIN seen \/ seen[c] = "down"}

\* The listener: of a container it knew, that it runs no more, or that it was removed
\* while it ran.
StopsTold(seen) ==
  {c \in DOMAIN told : /\ Running(told[c])
                       /\ c \in DOMAIN seen => seen[c] = "down"}

\* The last answer: compare, tell, notify, and only then replace the cache.
Polled(i) ==
  /\ polls[i].stage = "inspect" /\ polls[i].todo = {}
  /\ LET seen == polls[i].seen IN
     /\ IF Changed(seen)
        THEN /\ told' = seen
             /\ alarms' = [c \in Containers |-> IF c \in StopsTold(seen) THEN alarms[c] + 1 ELSE alarms[c]]
        ELSE UNCHANGED <<told, alarms>>
     /\ cache' = seen
  /\ polls' = RemoveAt(polls, i)
  /\ UNCHANGED <<docker, connects, timers, polling, clean, world, faults, ops>>

\* A container is started, stopped, removed, created, or its health changes.
Change ==
  /\ changes < MaxChanges /\ changes' = changes + 1
  /\ \E c \in Containers : \E look \in {"up", "sick", "down", "gone"} \ {real[c]} :
       /\ real' = [real EXCEPT ![c] = look]
       /\ stops' = IF Running(real[c]) /\ ~Running(look) THEN [stops EXCEPT ![c] = @ + 1] ELSE stops
  /\ UNCHANGED <<service, listener, faults, ops>>

Poll(i) == Listed(i) \/ ListFails(i) \/ (\E c \in Containers : Inspected(i, c) \/ NotInspected(i, c)) \/ Polled(i)

Next ==
  \/ connect \/ Connected \/ ConnectFailed \/ stopPolling \/ Restart \/ Tick \/ Change
  \/ \E i \in 1..Len(polls) : Poll(i)
-----------------------------------------------------------------------------
Look == {"up", "sick", "down"}
Map(f) == DOMAIN f \subseteq Containers /\ \A c \in DOMAIN f : f[c] \in Look

TypeOK ==
  /\ real \in [Containers -> Look \cup {"gone"}]
  /\ docker \in BOOLEAN /\ polling \in BOOLEAN /\ clean \in BOOLEAN
  /\ connects \in 0..MaxOps /\ timers \in 0..MaxOps
  /\ Len(polls) <= MaxPolls
  /\ \A i \in 1..Len(polls) :
       polls[i].stage \in {"list", "inspect"} /\ polls[i].todo \subseteq Containers /\ Map(polls[i].seen)
  /\ Map(cache) /\ Map(told)
  /\ stops \in [Containers -> 0..MaxChanges] /\ alarms \in [Containers -> Nat]

(* Polling that is stopped stays stopped, and runs at one pace: whatever   *)
(* the order of late answers to connect and of changes of the settings,    *)
(* there is one timer while the service polls, and none when it does not.  *)
OneTimer == timers = IF polling THEN 1 ELSE 0

(* What the windows and the notifications know is what the service last    *)
(* saw, the health too, although the polls overlap.                        *)
ToldIsCache == told = cache

(* No false alarm: as long as no poll overtakes another and every          *)
(* container answers, each notification of a stop is about another stop.   *)
NoFalseAlarm == clean => \A c \in Containers : alarms[c] <= stops[c]

MonitorIsSound == OneTimer /\ ToldIsCache /\ NoFalseAlarm

-----------------------------------------------------------------------------
(* What all this follows from.                                             *)

Looks == [Containers -> Look \cup {"gone"}]
Seen == UNION {[known -> Look] : known \in SUBSET Containers}
PollState == [stage : {"list", "inspect"}, todo : SUBSET Containers, seen : Seen]

\* What a poll, or the listener, takes a container for.
LookIn(seen, c) == IF c \in DOMAIN seen THEN seen[c] ELSE "gone"

\* From the one look to the other the container has stopped.
Drop(from, to) == IF Running(from) /\ ~Running(to) THEN 1 ELSE 0

\* A stop is notified once: those that the listener or the poll under way has still to
\* notice have been counted and not notified.
AlarmsOwed(c) ==
  LET known == LookIn(told, c)
      seeing == LookIn(polls[1].seen, c) IN
  IF polls = <<>> \/ polls[1].stage = "list" \/ c \in polls[1].todo
  THEN alarms[c] + Drop(known, real[c]) <= stops[c]
  ELSE alarms[c] + Drop(known, seeing) + Drop(seeing, real[c]) <= stops[c]

Service ==
  /\ docker \in BOOLEAN /\ polling \in BOOLEAN /\ connects \in Nat /\ OneTimer
  /\ ops \in 0..MaxOps /\ connects <= ops /\ timers <= ops

\* What is still to be asked for has not been seen, and nothing before the list is there.
Polls ==
  /\ polls \in Seq(PollState) /\ Len(polls) <= MaxPolls
  /\ \A i \in 1..Len(polls) :
       /\ polls[i].todo \cap DOMAIN polls[i].seen = {}
       /\ polls[i].stage = "list" => polls[i].todo = {} /\ polls[i].seen = <<>>

World ==
  /\ real \in Looks /\ stops \in [Containers -> Nat] /\ changes \in 0..MaxChanges
  /\ \A c \in Containers : stops[c] <= changes

Listener == cache \in Seen /\ ToldIsCache /\ alarms \in [Containers -> Nat]

Owed == clean => Len(polls) <= 1 /\ \A c \in Containers : AlarmsOwed(c)

Inv == Service /\ Polls /\ World /\ Listener /\ clean \in BOOLEAN /\ Owed
===============================================================================
