-------------------------- MODULE SessionOwnership --------------------------
(***************************************************************************)
(* Who controls a thread: the windows of the desktop application, which    *)
(* open it through a gate that they share (opening.rs) and never twice     *)
(* (state.rs owned_elsewhere), and other processes, which share the lease  *)
(* of the thread with them (local/lease.rs).                               *)
(*                                                                         *)
(*   window   the client of each window (application/mod.rs): it is open,  *)
(*            closes (WindowState.closing), has closed its owners, is gone;*)
(*   listed   AppState.windows;                                            *)
(*   door     Openings, the gate: the calls that hold or await it; they    *)
(*            are numbered in the order in which they came;                *)
(*   call     session_open and session_trust, and the open of the command  *)
(*            line, which is a window outside of Listed;                   *)
(*   held     WindowState.sessions, the handle of the thread in a window;  *)
(*   run      the LocalRuntime of a call, known to the client that         *)
(*            registered it;                                               *)
(*   lock, marker   the lock and the request file of the lease; 0 is none; *)
(*   seen, revoked  what the owner of the lease read when it began, and    *)
(*            whether it has seen a request since.                         *)
(*                                                                         *)
(* Every call resumes the same thread. A release of the lease is one step. *)
(***************************************************************************)
EXTENDS Naturals, FiniteSets, Sequences

CONSTANTS
  AppWindows,  \* windows of the application
  Others,      \* other processes
  MaxOpens     \* bound: calls

ASSUME OwnershipAssumption == AppWindows \cap Others = {} /\ MaxOpens \in Nat

VARIABLES window, listed, door, call, held, run, known, lock, marker, seen, revoked,
          demanded   \* history: a takeover was asked of the owner of the lease

ownershipVars == <<window, listed, door, call, held, run, known, lock, marker, seen, revoked, demanded>>

Clients == AppWindows \cup Others
Ids == 1 .. MaxOpens

OwnershipInit ==
  /\ window = [w \in Clients |-> "open"] /\ listed = AppWindows
  /\ door = {} /\ call = <<>>
  /\ held = [w \in Clients |-> 0]
  /\ run = [i \in Ids |-> "none"] /\ known = {}
  /\ lock = 0 /\ marker = 0 /\ seen = 0
  /\ revoked = FALSE /\ demanded = FALSE

Calls == DOMAIN call
At(i) == call[i].at
Of(i) == call[i].window
InApp(i) == Of(i) \in AppWindows
Goes(i, at) == call' = [call EXCEPT ![i].at = at]
ClientOpen(w) == window[w] \in {"open", "closing"}

\* The gate is given in order.
First(i) == i \in door /\ \A k \in door : i <= k

\* Calls end, and drop their permit of the gate.
EndsCalls(ids) ==
  /\ call' = [i \in DOMAIN call |-> IF i \in ids THEN [call[i] EXCEPT !.at = "over", !.takeover = FALSE, !.next = "opens"] ELSE call[i]]
  /\ door' = door \ ids

\* Lease::release by its owner: the request of another stays where it is.
Released(i) ==
  /\ lock' = 0
  /\ marker' = IF marker = i THEN 0 ELSE marker
  /\ seen' = 0 /\ revoked' = FALSE /\ demanded' = FALSE

-----------------------------------------------------------------------------
(* A window asks for the thread.                                           *)

\* Openings::acquire: it is refused while another window opens the thread, and waits for its own.
AskToOpen(w, takeover) ==
  /\ window[w] = "open" /\ Len(call) < MaxOpens
  /\ \/ w \in Others /\ UNCHANGED door
     \/ w \in listed /\ (\A k \in door : Of(k) = w) /\ door' = door \cup {Len(call) + 1}
  /\ call' = Append(call, [window |-> w, takeover |-> takeover, next |-> "prepares",
                           at |-> IF w \in Others THEN "prepares" ELSE "waits"])
  /\ UNCHANGED <<window, listed, held, run, known, lock, marker, seen, revoked, demanded>>

\* The thread is looked for in the other windows and in this one; operation() reads closing, ...
Enter(i) ==
  /\ At(i) = "waits" /\ First(i)
  /\ IF window[Of(i)] = "open" /\ \A v \in listed \cup {Of(i)} : held[v] = 0
     THEN Goes(i, "guarded") /\ UNCHANGED door
     ELSE EndsCalls({i})
  /\ UNCHANGED <<window, listed, held, run, known, lock, marker, seen, revoked, demanded>>

\* ... and then the call is entered, and may be aborted; the window may have begun to close between.
Operate(i) ==
  /\ At(i) = "guarded"
  /\ call' = [call EXCEPT ![i].at = call[i].next, ![i].next = "opens"]
  /\ UNCHANGED <<window, listed, door, held, run, known, lock, marker, seen, revoked, demanded>>

\* SessionService::prepare; the servers of the project may need the user's trust, and the gate is kept.
Prepare(i) ==
  /\ At(i) = "prepares"
  /\ \/ ClientOpen(Of(i)) /\ Goes(i, "opens") /\ UNCHANGED door
     \/ ClientOpen(Of(i)) /\ InApp(i) /\ Goes(i, "trust") /\ UNCHANGED door
     \/ EndsCalls({i})
  /\ UNCHANGED <<window, listed, held, run, known, lock, marker, seen, revoked, demanded>>

\* session_trust.
AnswerTrust(i) ==
  /\ At(i) = "trust" /\ Of(i) \in listed
  /\ \/ window[Of(i)] = "open" /\ Goes(i, "guarded") /\ UNCHANGED door
     \/ EndsCalls({i})
  /\ UNCHANGED <<window, listed, held, run, known, lock, marker, seen, revoked, demanded>>

-----------------------------------------------------------------------------
(* The lease.                                                              *)

\* Lease::acquire: the lock is tried; only a takeover may wait for it.
TryLock(i) ==
  /\ At(i) \in {"opens", "asked"}
  /\ IF lock = 0 /\ (At(i) = "opens" => ClientOpen(Of(i)))
     THEN lock' = i /\ Goes(i, "locked") /\ UNCHANGED door
     ELSE /\ At(i) = "opens"
          /\ IF call[i].takeover /\ ClientOpen(Of(i)) THEN Goes(i, "denied") /\ UNCHANGED door ELSE EndsCalls({i})
          /\ UNCHANGED lock
  /\ UNCHANGED <<window, listed, held, run, known, marker, seen, revoked, demanded>>

\* The request is written, once; the owner may be another one by now, or none.
AskOwner(i) ==
  /\ At(i) = "denied"
  /\ marker' = i /\ Goes(i, "asked")
  /\ demanded' = (lock # 0)
  /\ UNCHANGED <<window, listed, door, held, run, known, lock, seen, revoked>>

\* Mutant: an owner expects to read its own request.
BeginLeaseExpecting(i) ==
  /\ At(i) = "locked"
  /\ seen' = IF call[i].takeover THEN i ELSE 0
  /\ Goes(i, "starts")
  /\ UNCHANGED <<window, listed, door, held, run, known, lock, marker, revoked, demanded>>

\* The request that is there is not one to the new owner.
BeginLease(i) ==
  /\ At(i) = "locked"
  /\ seen' = marker
  /\ Goes(i, "starts")
  /\ UNCHANGED <<window, listed, door, held, run, known, lock, marker, revoked, demanded>>

\* Mutant: the lease is given up before the session is closed.
SeeRequestReleasing(i) ==
  /\ lock = i /\ At(i) # "locked" /\ marker # seen
  /\ revoked' = TRUE /\ lock' = 0
  /\ UNCHANGED <<window, listed, door, call, held, run, known, marker, seen, demanded>>

\* The task of an owner that looks at the request every 100 ms.
SeeRequest(i) ==
  /\ lock = i /\ At(i) # "locked" /\ marker # seen
  /\ revoked' = TRUE
  /\ UNCHANGED <<window, listed, door, call, held, run, known, lock, marker, seen, demanded>>

\* No answer in 12 s.
GiveUp(i) ==
  /\ At(i) = "asked" /\ lock # 0
  /\ EndsCalls({i})
  /\ UNCHANGED <<window, listed, held, run, known, lock, marker, seen, revoked, demanded>>

-----------------------------------------------------------------------------
(* The runtime.                                                            *)

Shut(ids) == run' = [i \in Ids |-> IF i \in ids /\ run[i] = "open" THEN "closed" ELSE run[i]]

\* LocalRuntime::open starts the engine under the lease, or fails; State::register refuses a client
\* that has closed, and the runtime is shut down again.
StartRuntime(i) ==
  /\ At(i) = "starts"
  /\ \/ /\ run' = [run EXCEPT ![i] = IF ClientOpen(Of(i)) THEN "open" ELSE "closed"]
        /\ IF ClientOpen(Of(i))
           THEN Goes(i, "registered") /\ known' = known \cup {i} /\ UNCHANGED door
           ELSE EndsCalls({i}) /\ UNCHANGED known
        /\ UNCHANGED <<lock, marker, seen, revoked, demanded>>
     \/ EndsCalls({i}) /\ Released(i) /\ UNCHANGED <<run, known>>
  /\ UNCHANGED <<window, listed, held>>

\* register() of the window: the handle is entered when the models of the runtime are known.
Hold(i) ==
  /\ At(i) = "registered"
  /\ EndsCalls({i})
  /\ \/ held' = [held EXCEPT ![Of(i)] = i] /\ UNCHANGED run
     \/ Shut({i}) /\ UNCHANGED held
  /\ UNCHANGED <<window, listed, known, lock, marker, seen, revoked, demanded>>

\* The event task of a runtime whose control has moved ends it.
HearRevoked(i) ==
  /\ lock = i /\ revoked /\ run[i] = "open"
  /\ Shut({i})
  /\ UNCHANGED <<window, listed, door, call, held, known, lock, marker, seen, revoked, demanded>>

\* finish_shutdown: the engine is closed, and then the lease is released.
Shutdown(i) ==
  /\ run[i] = "closed"
  /\ run' = [run EXCEPT ![i] = "none"]
  /\ known' = known \ {i}
  /\ Released(i)
  /\ UNCHANGED <<window, listed, door, call, held>>

\* The window hears Closed, or session_close takes the handle out.
LetGo(w) ==
  /\ held[w] # 0
  /\ held' = [held EXCEPT ![w] = 0]
  /\ Shut({held[w]})
  /\ UNCHANGED <<window, listed, door, call, known, lock, marker, seen, revoked, demanded>>

-----------------------------------------------------------------------------
(* The end of a window, and of a process.                                  *)

\* What the calls and handles hold is dropped.
Dropped(ids) ==
  /\ EndsCalls(ids)
  /\ run' = [i \in Ids |-> IF i \in ids THEN "none" ELSE run[i]]
  /\ known' = known \ ids

\* WindowState::close: calls are aborted, entered as they are. A destroyed window is unlisted first.
CloseStarts(w) ==
  /\ w \in AppWindows /\ window[w] = "open"
  /\ window' = [window EXCEPT ![w] = "closing"]
  /\ \/ UNCHANGED listed \/ listed' = listed \ {w}
  /\ LET aborted == {i \in Calls : Of(i) = w /\ At(i) \notin {"waits", "guarded", "over"}}
     IN  /\ Dropped(aborted)
         /\ IF lock \in aborted THEN Released(lock) ELSE UNCHANGED <<lock, marker, seen, revoked, demanded>>
  /\ UNCHANGED held

\* Client::close: its runtimes are shut down, and no other is registered.
CloseClient(w) ==
  /\ window[w] = "closing"
  /\ window' = [window EXCEPT ![w] = "closed"]
  /\ Shut({i \in known : Of(i) = w})
  /\ UNCHANGED <<listed, door, call, held, known, lock, marker, seen, revoked, demanded>>

\* They have ended.
CloseEnds(w) ==
  /\ window[w] = "closed"
  /\ \A i \in known : Of(i) # w
  /\ window' = [window EXCEPT ![w] = "gone"]
  /\ listed' = listed \ {w}
  /\ held' = [held EXCEPT ![w] = 0]
  /\ EndsCalls({i \in Calls : Of(i) = w /\ At(i) = "trust"})
  /\ UNCHANGED <<run, known, lock, marker, seen, revoked, demanded>>

\* Another process ends; its lock goes with it, and its request stays.
Crash(w) ==
  /\ w \in Others /\ window[w] = "open"
  /\ window' = [window EXCEPT ![w] = "gone"]
  /\ LET dropped == {i \in Calls : Of(i) = w}
     IN  /\ Dropped(dropped)
         /\ IF lock \in dropped THEN Released(0) ELSE UNCHANGED <<lock, seen, revoked, demanded>>
  /\ held' = [held EXCEPT ![w] = 0]
  /\ UNCHANGED <<listed, marker>>

-----------------------------------------------------------------------------
OwnershipNext ==
  \/ \E w \in Clients, takeover \in BOOLEAN : AskToOpen(w, takeover)
  \/ \E i \in Calls : \/ Enter(i) \/ Operate(i) \/ Prepare(i) \/ AnswerTrust(i)
                      \/ TryLock(i) \/ AskOwner(i) \/ BeginLease(i) \/ SeeRequest(i) \/ GiveUp(i)
                      \/ StartRuntime(i) \/ Hold(i) \/ HearRevoked(i) \/ Shutdown(i)
  \/ \E w \in Clients : LetGo(w) \/ CloseStarts(w) \/ CloseClient(w) \/ CloseEnds(w) \/ Crash(w)

OwnershipSpec == OwnershipInit /\ [][OwnershipNext]_ownershipVars

-----------------------------------------------------------------------------
(* Properties *)

\* "This session is open in another window." (commands/session.rs): two windows of the application
\* never show the same thread, and two runtimes of it are never open, whatever is asked, trusted,
\* aborted, taken over and closed meanwhile.
NeverTwo ==
  /\ Cardinality({w \in listed : held[w] # 0}) <= 1
  /\ Cardinality({i \in Ids : run[i] = "open"}) <= 1

\* An owner loses the thread only to a takeover that was asked of it: a request that it found when it
\* began, of a takeover that gave up or that ended with its process, is not one (local/lease.rs).
RevokedWasAsked == revoked => demanded

\* The thread has one owner at a time, who loses it to another only when that one asked.
OneOwner == NeverTwo /\ RevokedWasAsked
=============================================================================
