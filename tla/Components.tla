----------------------------- MODULE Components -----------------------------
(***************************************************************************)
(* The sessions behind the buttons and forms of the bot's messages         *)
(* (managers/components), with the two groups that use them: the channel   *)
(* search of /load, whose Stop & Save queues what it found, and the form   *)
(* of /credentials set.                                                    *)
(*                                                                         *)
(* The gateway runs every command and every press in a goroutine of its    *)
(* own.  A session is registered in two maps, `inverse` (user to group)    *)
(* under the manager's mutex and `data` (group and user to callbacks)      *)
(* under a mutex per group; close holds the first only.                    *)
(*                                                                         *)
(* A session of /load does not expire: the code compares the time of the   *)
(* press plus the limit with the earlier time of the command.              *)
(***************************************************************************)
EXTENDS Naturals

CONSTANTS Users,
          Handlers,     \* goroutines of the gateway
          MaxSessions,  \* bound on the sessions registered
          NoOne         \* nobody holds the mutex; also no user, no group

ASSUME HandlersAssumption == NoOne \notin Handlers
ASSUME BoundAssumption == MaxSessions \in Nat

Groups == {"load", "cred-set"}
Buttons == {"load-continue", "load-stop", "cred-set-modal-submit"}
Sessions == 1 .. MaxSessions

VARIABLES
  inverse,  \* the group of a user's session, or NoOne
  data,     \* the session of a user in a group, or 0
  mutex,    \* the close that holds the manager's mutex, or NoOne
  owner,    \* the user of each session
  group,    \* the group it was registered in
  busy,     \* sessions with a callback running
  stopped,  \* sessions whose close ran
  found,    \* sessions that found polls
  pushes,   \* how often a session handed its polls to Push, failed or not
  made,     \* sessions made so far
  pc,       \* where each handler is
  user,     \* whom it serves
  button,   \* what was pressed
  place,    \* the group inverse sent it to
  target    \* the session it works on, or 0

maps == <<inverse, data, mutex>>
sessionVars == <<owner, group, busy, stopped, found, pushes, made>>
handlerVars == <<user, button, place, target>>
vars == <<maps, sessionVars, pc, handlerVars>>

Init ==
  /\ inverse = [u \in Users |-> NoOne]
  /\ data = [g \in Groups |-> [u \in Users |-> 0]]
  /\ mutex = NoOne
  /\ owner = [s \in Sessions |-> NoOne] /\ group = [s \in Sessions |-> NoOne]
  /\ busy = {} /\ stopped = {} /\ found = {} /\ made = 0
  /\ pushes = [s \in Sessions |-> 0]
  /\ pc = [h \in Handlers |-> "idle"]
  /\ user = [h \in Handlers |-> NoOne] /\ button = [h \in Handlers |-> NoOne]
  /\ place = [h \in Handlers |-> NoOne] /\ target = [h \in Handlers |-> 0]

Goto(h, at) == pc' = [pc EXCEPT ![h] = at]

\* The handler returns, and its locals with it.
Return(h) ==
  /\ Goto(h, "idle")
  /\ user' = [user EXCEPT ![h] = NoOne] /\ button' = [button EXCEPT ![h] = NoOne]
  /\ place' = [place EXCEPT ![h] = NoOne] /\ target' = [target EXCEPT ![h] = 0]
-----------------------------------------------------------------------------
(***************************************************************************)
(* Register                                                                *)
(***************************************************************************)
Command(h, u, g) ==
  /\ pc[h] = "idle" /\ made < MaxSessions
  /\ made' = made + 1
  /\ owner' = [owner EXCEPT ![made'] = u] /\ group' = [group EXCEPT ![made'] = g]
  /\ target' = [target EXCEPT ![h] = made'] /\ user' = [user EXCEPT ![h] = u]
  /\ Goto(h, "rules")
  /\ UNCHANGED <<maps, busy, stopped, found, pushes, button, place>>

\* Both groups have NewInvalidatesOld and not InvalidationCloses: every session
\* of the group is forgotten, and its user's entry of inverse with it.
applyRules(h) ==
  /\ pc[h] = "rules" /\ mutex = NoOne
  /\ LET g == group[target[h]] IN
     /\ inverse' = [u \in Users |-> IF data[g][u] # 0 THEN NoOne ELSE inverse[u]]
     /\ data' = [data EXCEPT ![g] = [u \in Users |-> 0]]
  /\ Goto(h, "inverse")
  /\ UNCHANGED <<mutex, sessionVars, handlerVars>>

PushInverse(h) ==
  /\ pc[h] = "inverse" /\ mutex = NoOne
  /\ inverse' = [inverse EXCEPT ![user[h]] = group[target[h]]]
  /\ Goto(h, "write")
  /\ UNCHANGED <<data, mutex, sessionVars, handlerVars>>

\* Mutant of WriteData: the entry is written when there is none only.
WriteIfNone(h) ==
  /\ pc[h] = "write"
  /\ LET g == group[target[h]] IN
       data' = IF \A u \in Users : data[g][u] = 0
               THEN [data EXCEPT ![g][user[h]] = target[h]] ELSE data
  /\ Return(h)
  /\ UNCHANGED <<inverse, mutex, sessionVars>>

WriteData(h) ==
  /\ pc[h] = "write"
  /\ data' = [data EXCEPT ![group[target[h]]][user[h]] = target[h]]
  /\ Return(h)
  /\ UNCHANGED <<inverse, mutex, sessionVars>>
-----------------------------------------------------------------------------
(***************************************************************************)
(* TryRun                                                                  *)
(***************************************************************************)
Press(h, u, b) ==
  /\ pc[h] = "idle" /\ inverse[u] # NoOne /\ mutex = NoOne
  /\ user' = [user EXCEPT ![h] = u] /\ button' = [button EXCEPT ![h] = b]
  /\ Goto(h, "press")
  /\ UNCHANGED <<maps, sessionVars, place, target>>

FindGroup(h) ==
  /\ pc[h] = "press" /\ mutex = NoOne
  /\ IF inverse[user[h]] = NoOne
     THEN Return(h)
     ELSE /\ place' = [place EXCEPT ![h] = inverse[user[h]]] /\ Goto(h, "find")
          /\ UNCHANGED <<user, button, target>>
  /\ UNCHANGED <<maps, sessionVars>>

FindSession(h) ==
  /\ pc[h] = "find"
  /\ LET s == data[place[h]][user[h]] IN
     IF s = 0 THEN Return(h)
     ELSE target' = [target EXCEPT ![h] = s] /\ Goto(h, "swap") /\ UNCHANGED <<user, button, place>>
  /\ UNCHANGED <<maps, sessionVars>>

\* Mutant of SetBusy: a session that is busy is run again.
RunAnyway(h) ==
  /\ pc[h] = "swap" /\ busy' = busy \cup {target[h]} /\ Goto(h, "call")
  /\ UNCHANGED <<maps, owner, group, stopped, found, pushes, made, handlerVars>>

SetBusy(h) ==
  /\ pc[h] = "swap"
  /\ IF target[h] \in busy
     THEN Return(h) /\ UNCHANGED busy
     ELSE busy' = busy \cup {target[h]} /\ Goto(h, "call") /\ UNCHANGED handlerVars
  /\ UNCHANGED <<maps, owner, group, stopped, found, pushes, made>>

\* The callback is over, with an error or without being done.
EndRun(h) ==
  /\ busy' = busy \ {target[h]} /\ Return(h)

\* A button of another group is an unknown id.
UnknownId(h) ==
  /\ pc[h] = "call"
  /\ (group[target[h]] = "load") # (button[h] \in {"load-continue", "load-stop"})
  /\ EndRun(h)
  /\ UNCHANGED <<maps, owner, group, stopped, found, pushes, made>>

Called(h, b) ==
  pc[h] = "call" /\ button[h] = b /\ (group[target[h]] = "load" <=> b # "cred-set-modal-submit")

\* Mutant of LoadContinue: a stopped session searches on.
ContinueStopped(h) ==
  /\ Called(h, "load-continue")
  /\ found' \in {found, found \cup {target[h]}}
  /\ EndRun(h)
  /\ UNCHANGED <<maps, owner, group, stopped, pushes, made>>

\* iLoadContinue finds more polls, or none, or fails to fetch or to answer.
LoadContinue(h) ==
  /\ Called(h, "load-continue")
  /\ found' \in IF target[h] \in stopped THEN {found} ELSE {found, found \cup {target[h]}}
  /\ EndRun(h)
  /\ UNCHANGED <<maps, owner, group, stopped, pushes, made>>

\* iLoadStop and iModalSubmit are done, unless they fail to answer.
Done(h) ==
  /\ Called(h, "load-stop") \/ Called(h, "cred-set-modal-submit")
  /\ \/ EndRun(h)
     \/ Goto(h, "close") /\ UNCHANGED <<busy, handlerVars>>
  /\ UNCHANGED <<maps, owner, group, stopped, found, pushes, made>>

CloseLock(h) ==
  /\ pc[h] = "close" /\ mutex = NoOne
  /\ mutex' = h /\ Goto(h, "closing")
  /\ UNCHANGED <<inverse, data, sessionVars, handlerVars>>

\* Mutant of CloseCallback: the swap that debounces it is missing.
CloseAgain(h) ==
  /\ pc[h] = "closing"
  /\ LET s == target[h] IN
     /\ stopped' = stopped \cup {s}
     /\ pushes' = [pushes EXCEPT ![s] = IF s \in found THEN @ + 1 ELSE @]
     /\ \/ Goto(h, "delete") /\ UNCHANGED <<mutex, busy, handlerVars>>
        \/ mutex' = NoOne /\ EndRun(h)
  /\ UNCHANGED <<inverse, data, owner, group, found, made>>

\* Mutant of CloseCallback: a failed close returns with the mutex held.
KeepLocked(h) ==
  /\ pc[h] = "closing"
  /\ LET s == target[h] IN
     IF group[s] = "load" /\ s \notin stopped
     THEN /\ stopped' = stopped \cup {s}
          /\ pushes' = [pushes EXCEPT ![s] = IF s \in found THEN @ + 1 ELSE @]
          /\ \/ Goto(h, "delete") /\ UNCHANGED <<busy, handlerVars>>
             \/ EndRun(h)
     ELSE Goto(h, "delete") /\ UNCHANGED <<busy, handlerVars, stopped, pushes>>
  /\ UNCHANGED <<inverse, data, mutex, owner, group, found, made>>

\* Under the mutex: iClose hands the polls found to Push, once, and tells the
\* user.  Either may fail, and the session stays; it is stopped by then, so a Push
\* that failed is not repeated.  iModalClose does nothing.
CloseCallback(h) ==
  /\ pc[h] = "closing"
  /\ LET s == target[h] IN
     IF group[s] = "load" /\ s \notin stopped
     THEN /\ stopped' = stopped \cup {s}
          /\ pushes' = [pushes EXCEPT ![s] = IF s \in found THEN @ + 1 ELSE @]
          /\ \/ Goto(h, "delete") /\ UNCHANGED <<mutex, busy, handlerVars>>
             \/ mutex' = NoOne /\ EndRun(h)
     ELSE Goto(h, "delete") /\ UNCHANGED <<mutex, busy, handlerVars, stopped, pushes>>
  /\ UNCHANGED <<inverse, data, owner, group, found, made>>

\* Mutant of CloseDelete: inverse is left.
DeleteDataOnly(h) ==
  /\ pc[h] = "delete"
  /\ data' = [data EXCEPT ![group[target[h]]][user[h]] = 0]
  /\ mutex' = NoOne /\ EndRun(h)
  /\ UNCHANGED <<inverse, owner, group, stopped, found, pushes, made>>

\* The entries are deleted by user, whichever session they are of.
CloseDelete(h) ==
  /\ pc[h] = "delete"
  /\ inverse' = [inverse EXCEPT ![user[h]] = NoOne]
  /\ data' = [data EXCEPT ![group[target[h]]][user[h]] = 0]
  /\ mutex' = NoOne /\ EndRun(h)
  /\ UNCHANGED <<owner, group, stopped, found, pushes, made>>

\* close deletes from data without the group's mutex: while it does, a read or a
\* write of the same map by another handler makes the runtime end the process.
Throw ==
  /\ \E h, k \in Handlers :
       /\ pc[h] = "delete"
       /\ \/ pc[k] = "find" /\ place[k] = group[target[h]]
          \/ pc[k] = "write" /\ group[target[k]] = group[target[h]]
  /\ pc' = [h \in Handlers |-> "gone"]
  /\ UNCHANGED <<maps, sessionVars, handlerVars>>

Step(h) ==
  \/ applyRules(h) \/ PushInverse(h) \/ WriteData(h)
  \/ FindGroup(h) \/ FindSession(h) \/ SetBusy(h) \/ UnknownId(h) \/ LoadContinue(h) \/ Done(h)
  \/ CloseLock(h) \/ CloseCallback(h) \/ CloseDelete(h)

Next ==
  \/ \E h \in Handlers : Step(h)
  \/ \E h \in Handlers, u \in Users :
       (\E g \in Groups : Command(h, u, g)) \/ (\E b \in Buttons : Press(h, u, b))
  \/ Throw

\* Handlers run, their calls to Discord return, and the mutex starves nobody.
Spec == Init /\ [][Next]_vars /\ \A h \in Handlers : SF_vars(Step(h))
-----------------------------------------------------------------------------
TypeOK ==
  /\ inverse \in [Users -> Groups \cup {NoOne}]
  /\ data \in [Groups -> [Users -> 0 .. made]]
  /\ mutex \in Handlers \cup {NoOne} /\ made \in 0 .. MaxSessions
  /\ owner \in [Sessions -> Users \cup {NoOne}] /\ group \in [Sessions -> Groups \cup {NoOne}]
  /\ busy \subseteq 1 .. made /\ stopped \subseteq 1 .. made /\ found \subseteq 1 .. made
  /\ pushes \in [Sessions -> Nat]
  /\ pc \in [Handlers -> {"idle", "rules", "inverse", "write", "press", "find", "swap", "call",
                          "close", "closing", "delete", "gone"}]
  /\ place \in [Handlers -> Groups \cup {NoOne}] /\ target \in [Handlers -> 0 .. made]
  /\ user \in [Handlers -> Users \cup {NoOne}] /\ button \in [Handlers -> Buttons \cup {NoOne}]
  /\ \A h \in Handlers : pc[h] # "gone" => (pc[h] \in {"closing", "delete"} <=> mutex = h)

\* A user whom inverse sends to a group has a session there, or a Register that
\* is about to write it: whatever commands, presses, closes and invalidations
\* overlap, a press is never sent to a group that does not know its user for good.
InverseHasSession ==
  \A u \in Users :
    inverse[u] # NoOne =>
      \/ data[inverse[u]][u] # 0
      \/ \E h \in Handlers : pc[h] \in {"write", "gone"} /\ user[h] = u /\ group[target[h]] = inverse[u]

\* "busy atomic in manager should help w debounce": a session's callbacks, which
\* share its state, run one at a time, its close included, even after the
\* session was invalidated and its user has a new one.
OneCallback ==
  \A h, k \in Handlers :
    /\ h # k /\ target[h] = target[k]
    => ~({pc[h], pc[k]} \subseteq {"call", "close", "closing", "delete"})

\* What a search found is handed to Push once, and before the session is forgotten
\* by its own close, however often closing fails and is tried again.
SavedOnce ==
  /\ \A s \in Sessions : pushes[s] <= 1
  /\ \A h \in Handlers :
       pc[h] = "delete" /\ group[target[h]] = "load" /\ target[h] \in found => pushes[target[h]] = 1

\* Every handler returns, although callbacks call Discord and queue polls under
\* the manager's mutex.
HandlersReturn == \A h \in Handlers : pc[h] # "idle" ~> pc[h] \in {"idle", "gone"}
=============================================================================
