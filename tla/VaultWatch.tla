----------------------------- MODULE VaultWatch -----------------------------
(***************************************************************************)
(* `watchVault` (packages/server/src/watch.ts): coalesces file events and  *)
(* calls `onChange` once per burst, never concurrently.                    *)
(*                                                                         *)
(* The timer handle and the timers it has armed are two different things.  *)
(* `flush` forgets the handle without clearing the timeout behind it, so a *)
(* flush that did not come from that timeout (the one in `finally`) leaves *)
(* an orphan: a timeout still counting that nobody can clear any more.     *)
(***************************************************************************)
EXTENDS Vault, Naturals

VARIABLES
  events,    \* paths whose change the operating system has yet to report
  pending,   \* `pending`: paths reported since the last flush
  timer,     \* `timer` holds a timeout that is still counting
  orphans,   \* timeouts still counting that `timer` no longer holds
  running,   \* `running`: an onChange call has not settled
  again,     \* `again`: a flush came while one was running
  closed     \* `closed`

watchVars == <<events, pending, timer, orphans, running, again, closed>>

WatchTypeOK ==
  /\ events \in SUBSET Paths
  /\ pending \in SUBSET Paths
  /\ timer \in BOOLEAN
  /\ orphans \in Nat
  /\ running \in BOOLEAN
  /\ again \in BOOLEAN
  /\ closed \in BOOLEAN

WatchInit ==
  /\ events = {}
  /\ pending = {}
  /\ timer = FALSE
  /\ orphans = 0
  /\ running = FALSE
  /\ again = FALSE
  /\ closed = FALSE

\* A watch started anew, by a new process.
WatchAnew ==
  /\ events' = {}
  /\ pending' = {}
  /\ timer' = FALSE
  /\ orphans' = 0
  /\ running' = FALSE
  /\ again' = FALSE
  /\ closed' = FALSE

\* Some timeout is counting and will call flush.
Armed == timer \/ orphans > 0

\* How many there are.
Timeouts == orphans + (IF timer THEN 1 ELSE 0)

-----------------------------------------------------------------------------
\* The operating system: a file below the root changed.
Changed(p) == events' = events \cup {p}

\* The "change" event reaches the process: the debounce starts again.
Deliver(p) ==
  /\ p \in events
  /\ ~closed
  /\ events' = events \ {p}
  /\ pending' = pending \cup {p}
  /\ timer' = TRUE
  /\ UNCHANGED <<orphans, running, again, closed>>

\* Mutant of Flush: a flush during a call is dropped.
FlushForgetful ==
  \/ /\ closed \/ running
     /\ UNCHANGED <<pending, running, again>>
  \/ /\ ~closed /\ ~running
     /\ pending' = {}
     /\ running' = TRUE
     /\ UNCHANGED again

(***************************************************************************)
(* The body of `flush`: `closed` is read first, then a call in progress    *)
(* turns the flush into `again`, and only then does a new call begin.      *)
(***************************************************************************)
Flush ==
  \/ /\ closed
     /\ UNCHANGED <<pending, running, again>>
  \/ /\ ~closed /\ running
     /\ again' = TRUE
     /\ UNCHANGED <<pending, running>>
  \/ /\ ~closed /\ ~running
     /\ pending' = {}
     /\ running' = TRUE
     /\ UNCHANGED again

(***************************************************************************)
(* Timeouts of one length run out in the order they were armed in, and the *)
(* one the handle holds was armed last.                                    *)
(***************************************************************************)
TimerFires ==
  /\ timer
  /\ orphans = 0
  /\ timer' = FALSE
  /\ Flush
  /\ UNCHANGED <<events, orphans, closed>>

\* Mutant of OrphanFires: a timeout fires that nobody armed.
OrphanFiresUnarmed ==
  /\ orphans' = IF timer THEN orphans ELSE orphans - 1
  /\ timer' = FALSE
  /\ Flush
  /\ UNCHANGED <<events, closed>>

\* `timer = undefined` on the way in: a timeout the handle held is orphaned.
OrphanFires ==
  /\ orphans > 0
  /\ orphans' = IF timer THEN orphans ELSE orphans - 1
  /\ timer' = FALSE
  /\ Flush
  /\ UNCHANGED <<events, closed>>

\* Mutant of Settle: the call settles without looking at `again`.
SettleDeaf ==
  /\ running
  /\ running' = FALSE
  /\ again' = FALSE
  /\ UNCHANGED <<events, pending, timer, orphans, closed>>

(***************************************************************************)
(* The onChange promise settles (`catch` has already turned a rejection    *)
(* into a log line): `finally` clears `running` and, if a flush came       *)
(* meanwhile, flushes at once, forgetting the handle as any flush does.    *)
(***************************************************************************)
Settle ==
  /\ running
  /\ again' = FALSE
  /\ \/ /\ ~again
        /\ running' = FALSE
        /\ UNCHANGED <<pending, timer, orphans>>
     \/ /\ again
        /\ running' = ~closed
        /\ pending' = IF closed THEN pending ELSE {}
        /\ timer' = FALSE
        /\ orphans' = IF timer THEN orphans + 1 ELSE orphans
  /\ UNCHANGED <<events, closed>>

\* `close`: the handle's timeout is cleared, an orphan is not.
Close ==
  /\ ~closed
  /\ closed' = TRUE
  /\ timer' = FALSE
  /\ UNCHANGED <<events, pending, orphans, running, again>>
-----------------------------------------------------------------------------
WatchNext ==
  \/ \E p \in Paths : Changed(p) /\ UNCHANGED <<pending, timer, orphans, running, again, closed>>
  \/ \E p \in Paths : Deliver(p)
  \/ TimerFires
  \/ OrphanFires
  \/ Settle
  \/ Close
  \/ WatchAnew

WatchSpec == WatchInit /\ [][WatchNext]_watchVars
-----------------------------------------------------------------------------
(***************************************************************************)
(* A reported change is never forgotten: while a path waits in `pending`,  *)
(* a timeout is counting or the running call has been told to go again.    *)
(* This is the promise of watch.ts:34-36, "a burst arriving during a       *)
(* reload triggers one more reload after it", through every interleaving   *)
(* of events, timers, orphans and settling calls.                          *)
(***************************************************************************)
NoEventForgotten == ~closed /\ pending # {} => Armed \/ again

(* `again` is a message to the call in progress: with none there is nobody to read it. *)
AgainHasReader == again => running
=============================================================================
