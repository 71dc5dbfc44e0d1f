---------------------------- MODULE ShownReports -----------------------------
(***************************************************************************)
(* What the windows show, as they tell the host, and an agent's wait for   *)
(* it: report_shown, forget_viewer, viewers_at and wait_until_shown of     *)
(* crates/parcad-host/src/session.rs, with the window's report and its     *)
(* repeats (app/src/engine.ts) on the other side.  A report is a request   *)
(* of its own: two of one window may arrive in either order.  How long a   *)
(* window has been silent is live, stale (STALE) or forgotten (FORGOTTEN). *)
(***************************************************************************)
EXTENDS Naturals, Functions

CONSTANTS
    Windows,       \* the windows that follow the session
    MaxRevision,   \* bound: edits that agents make and wait for
    MaxReports     \* bound: reports of one kind on their way at once

VARIABLES
    revision,   \* the session's revision
    shows,      \* per window: the revision it last evaluated (0: none yet)
    closed,     \* windows that were closed
    posts,      \* reports on their way: how many of each
    leaving,    \* closed windows whose event stream the host has not seen end
    viewers,    \* what the host knows: window -> what it reported, and whether it is live
    wait,       \* per edit: where the agent's wait for it is
    told        \* edits whose wait was notified since it registered

hostVars == <<viewers, wait, told>>
vars == <<revision, shows, closed, posts, leaving, viewers, wait, told>>

Revisions == 1..MaxRevision
Report(w, r) == [by |-> w, revision |-> r]
Reports == [by : Windows, revision : 0..MaxRevision]

Live == {w \in DOMAIN viewers : viewers[w].live}
Showing(r) == {w \in Live : viewers[w].revision >= r}

------------------------------------------------------------------------------
(* The host *)

(* Mutant of Notified: only the calls that already sleep are told. *)
OnlySleepers == {r \in Revisions : wait[r] = "asleep"}

(* notify_waiters: every wait that has registered is told, asleep yet or not. *)
Notified == {r \in Revisions : wait[r] \in {"registered", "looked", "asleep"}}

(* Mutant of Recorded: a window's first report stays. *)
RecordedOnce(p) ==
    [w \in DOMAIN viewers \union {p.by} |->
        IF w \in DOMAIN viewers THEN viewers[w] ELSE [revision |-> p.revision, live |-> TRUE]]

(* The report takes the place of the window's last. *)
Recorded(p) ==
    [w \in DOMAIN viewers \union {p.by} |->
        IF w = p.by THEN [revision |-> p.revision, live |-> TRUE] ELSE viewers[w]]

ReportShown(p) ==
    /\ posts[p] > 0
    /\ posts' = [posts EXCEPT ![p] = @ - 1]
    /\ viewers' = Recorded(p)
    /\ told' = told \union Notified
    /\ UNCHANGED <<revision, shows, closed, leaving, wait>>

Without(w) == Restrict(viewers, DOMAIN viewers \ {w})

(* The event stream of a closed window ends. *)
ForgetViewer(w) ==
    /\ w \in leaving
    /\ leaving' = leaving \ {w}
    /\ viewers' = Without(w)
    /\ told' = told \union Notified
    /\ UNCHANGED <<revision, shows, closed, posts, wait>>

(* Silence: a live window becomes stale, a stale one is left out; nobody is told. *)
Silence(w) ==
    /\ w \in DOMAIN viewers
    /\ viewers' = IF viewers[w].live THEN [viewers EXCEPT ![w].live = FALSE] ELSE Without(w)
    /\ UNCHANGED <<revision, shows, closed, posts, leaving, wait, told>>

(* The agent's edit is committed, and its wait begins. *)
Commit ==
    /\ revision < MaxRevision
    /\ revision' = revision + 1
    /\ wait' = [wait EXCEPT ![revision + 1] = "begun"]
    /\ UNCHANGED <<shows, closed, posts, leaving, viewers, told>>

(* wait_until_shown registers before it looks. *)
Register(r) ==
    /\ wait[r] = "begun"
    /\ wait' = [wait EXCEPT ![r] = "registered"]
    /\ told' = told \ {r}
    /\ UNCHANGED <<revision, shows, closed, posts, leaving, viewers>>

Look(r) ==
    /\ wait[r] = "registered"
    /\ wait' = [wait EXCEPT ![r] = IF Live = {} THEN "nobody" ELSE IF Showing(r) # {} THEN "shown" ELSE "looked"]
    /\ UNCHANGED <<revision, shows, closed, posts, leaving, viewers, told>>

Await(r) ==
    /\ wait[r] = "looked"
    /\ wait' = [wait EXCEPT ![r] = "asleep"]
    /\ UNCHANGED <<revision, shows, closed, posts, leaving, viewers, told>>

Wake(r) ==
    /\ wait[r] = "asleep" /\ r \in told
    /\ wait' = [wait EXCEPT ![r] = "begun"]
    /\ UNCHANGED <<revision, shows, closed, posts, leaving, viewers, told>>

Deadline(r) ==
    /\ wait[r] = "asleep"
    /\ wait' = [wait EXCEPT ![r] = "late"]
    /\ UNCHANGED <<revision, shows, closed, posts, leaving, viewers, told>>

------------------------------------------------------------------------------
(* The window *)

Post(w, r) == /\ posts[Report(w, r)] < MaxReports
              /\ posts' = [posts EXCEPT ![Report(w, r)] = @ + 1]

(* An evaluation of the session's script ends, and is reported. *)
Show(w) ==
    /\ w \notin closed /\ shows[w] < revision
    /\ shows' = [shows EXCEPT ![w] = revision]
    /\ Post(w, revision)
    /\ UNCHANGED <<revision, closed, leaving, hostVars>>

HasReport(w) == shows[w] > 0

LastReport(w) == shows[w]

(* Every ten seconds the last report is made again. *)
Repeat(w) ==
    /\ w \notin closed /\ HasReport(w)
    /\ Post(w, LastReport(w))
    /\ UNCHANGED <<revision, shows, closed, leaving, hostVars>>

CloseWindow(w) ==
    /\ w \notin closed
    /\ closed' = closed \union {w}
    /\ leaving' = leaving \union {w}
    /\ UNCHANGED <<revision, shows, posts, hostVars>>

------------------------------------------------------------------------------
Init ==
    /\ revision = 0
    /\ shows = [w \in Windows |-> 0]
    /\ closed = {} /\ leaving = {} /\ told = {}
    /\ posts = [p \in Reports |-> 0]
    /\ viewers = [w \in {} |-> [revision |-> 0, live |-> TRUE]]
    /\ wait = [r \in Revisions |-> "none"]

Next ==
    \/ Commit
    \/ \E r \in Revisions : Register(r) \/ Look(r) \/ Await(r) \/ Wake(r) \/ Deadline(r)
    \/ \E w \in Windows : Show(w) \/ Repeat(w) \/ CloseWindow(w) \/ ForgetViewer(w) \/ Silence(w)
    \/ \E p \in Reports : ReportShown(p)

Spec == Init /\ [][Next]_vars

(* A wait goes on; requests arrive; an open window evaluates what is committed and repeats itself.
   No deadline is fair: what is promised is promised before it. *)
Fairness ==
    /\ \A r \in Revisions : WF_vars(Register(r) \/ Look(r) \/ Await(r) \/ Wake(r))
    /\ \A w \in Windows : WF_vars(Show(w)) /\ WF_vars(Repeat(w))
    /\ \A p \in Reports : WF_vars(ReportShown(p))

FairSpec == Spec /\ Fairness

------------------------------------------------------------------------------
(* Properties *)

(* Every variable has its type. *)
TypeOK ==
    /\ revision \in 0..MaxRevision
    /\ shows \in [Windows -> 0..MaxRevision]
    /\ closed \subseteq Windows /\ leaving \subseteq closed
    /\ posts \in [Reports -> 0..MaxReports]
    /\ DOMAIN viewers \subseteq Windows
    /\ \A w \in DOMAIN viewers : viewers[w] \in [revision : Revisions, live : BOOLEAN]
    /\ wait \in [Revisions -> {"none", "begun", "registered", "looked", "asleep", "shown", "nobody", "late"}]
    /\ told \subseteq Revisions

(* A wait does not sleep through the report it waits for: while it sleeps and has not been told, no
   live window has reported its revision.  A report may come between the look and the sleep
   (session.rs wait_until_shown registers before it looks). *)
NoReportMissed == \A r \in Revisions : wait[r] \in {"looked", "asleep"} /\ r \notin told => Showing(r) = {}

(* What the host says of a window is what the window did: it never counts a revision as shown that
   the window has not evaluated, whatever order its reports arrive in. *)
OnlyWhatWasShown == \A w \in DOMAIN viewers : viewers[w].revision <= shows[w]

(* The host's record of its windows and the waits on it, at any time. *)
ReportsStand == TypeOK /\ NoReportMissed /\ OnlyWhatWasShown

(* Once a live window reports the revision, the wait for it ends without its deadline, unless the
   window falls silent first. *)
EndsWhenShown ==
    \A r \in Revisions : (wait[r] = "asleep" /\ Showing(r) # {}) ~> (wait[r] # "asleep" \/ Showing(r) = {})

(* A repeat that overtakes a newer report sets the host's record back; the record comes back to what
   the window shows, again and again while the window is open. *)
RecordCatchesUp ==
    \A w \in Windows :
        []<>(w \in closed \/ (w \in DOMAIN viewers => viewers[w].revision = shows[w]))

(* What a window shows is known to the host in the end, and to whoever waits for it. *)
ReportsSettle == EndsWhenShown /\ RecordCatchesUp
=============================================================================
