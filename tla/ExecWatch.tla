----------------------------- MODULE ExecWatch ------------------------------
(***************************************************************************)
(* The test driver's watch over the program it runs (util/exec.cpp):        *)
(* exec_file() forks, wait_for_child() waits with an alarm and, when the    *)
(* alarm or a request to terminate comes, sends the child's process group   *)
(* one signal after the other until it is gone.  Two targets are run one    *)
(* after the other, because the handlers and their flags outlive the first. *)
(*                                                                         *)
(* A signal may reach the driver at any of its steps.  waitpid() is two     *)
(* steps, Enter and what ends it, so that a signal may come between the     *)
(* test of the flag and the wait (alarm_timeout is tested before waitpid()  *)
(* blocks, and nothing blocks the signal in between).                       *)
(***************************************************************************)
EXTENDS Naturals, Sequences, TLC

CONSTANTS Targets,     \* bound: how many programs are run
          MaxAsked     \* bound: how often the driver is asked to terminate

ASSUME ExecAssumption == Targets \in Nat \ {0} /\ MaxAsked \in Nat

VARIABLES
    pc,        \* the driver
    target,    \* how many it has begun to run
    child,     \* the child: [state, how, nature, group, timed, notice]
    kids,      \* other processes of the child's group: "none", or their nature
    doomed,    \* who has got a signal that it does not survive
    armed,     \* alarm() is running
    flag,      \* alarm_timeout
    killSignal,\* kill_signal is set
    siginx,    \* signals sent so far
    stopped,   \* the child is known to be stopped
    result,    \* what the caller is told: [exit, signaled, status]
    asked,     \* ghost: how often the driver was asked to terminate
    heard,     \* ghost: the request fell into a wait
    missed     \* ghost: a signal came to the driver outside of waitpid(), or
               \* the child had no group yet when it was to be signalled

flags == <<armed, flag, killSignal>>
ghosts == <<asked, heard, missed>>
vars == <<pc, target, child, kids, doomed, flags, siginx, stopped, result, ghosts>>

Signals == <<"HUP", "INT", "QUIT", "TERM", "KILL", "KILL">>
Natures == {"meek", "stubborn", "immune"}    \* dies of any, of KILL only, of none
Exits == {"exit 0", "exit 126", "exit 127"}
Names == {Signals[i] : i \in DOMAIN Signals} \cup {"STOP", "SEGV"}
NoResult == [exit |-> "exit 0", signaled |-> FALSE, status |-> "ok"]
NoChild == [state |-> "reaped", how |-> "exit 0", nature |-> "meek", group |-> FALSE,
            timed |-> FALSE, notice |-> "none"]

\* may a process of this nature be ended by this signal?
Mortal(nature, sig) == nature = "meek" \/ (nature = "stubborn" /\ sig = "KILL")
Alive == child.state \in {"running", "stopped"}
\* kill(-child_pid, s) finds somebody: a process that was not waited for yet
\* is still in its group
GroupExists == child.group /\ (child.state # "reaped" \/ kids # "none")

Waiting == {"enter", "blocked", "eintr"}
InCall == Waiting \cup {"clean", "check"}

Init ==
    /\ pc = "idle" /\ target = 0 /\ child = NoChild /\ kids = "none" /\ doomed = {}
    /\ armed = FALSE /\ flag = FALSE /\ killSignal = FALSE
    /\ siginx = 0 /\ stopped = FALSE /\ result = NoResult
    /\ asked = 0 /\ heard = FALSE /\ missed = FALSE
-----------------------------------------------------------------------------
\* The processes.

\* the child makes a process group of its own, some time after fork()
Group ==
    /\ Alive /\ ~child.group
    /\ child' = [child EXCEPT !.group = TRUE]
    /\ UNCHANGED <<pc, target, kids, doomed, flags, siginx, stopped, result, ghosts>>

\* then it runs, and may start others, which stay in its group
Spawn ==
    /\ child.state = "running" /\ child.group /\ kids = "none"
    /\ child.nature # "immune" /\ <<"child", "KILL">> \notin doomed
    /\ \E n \in Natures : kids' = n
    /\ UNCHANGED <<pc, target, child, doomed, flags, siginx, stopped, result, ghosts>>

Ends(how) == child' = [child EXCEPT !.state = "zombie", !.how = how, !.notice = "none"]

\* it ends by itself, having been run or not (POSIX's 126 and 127), or of an
\* error of its own
Exit ==
    /\ child.state = "running" /\ child.group
    /\ \E how \in Exits \cup {"SEGV"} : Ends(how)
    /\ UNCHANGED <<pc, target, kids, doomed, flags, siginx, stopped, result, ghosts>>

\* it is stopped, or continued, by somebody else
Stop ==
    /\ child.state = "running" /\ child.group /\ child.nature # "immune"
    /\ child' = [child EXCEPT !.state = "stopped", !.notice = "stopped"]
    /\ UNCHANGED <<pc, target, kids, doomed, flags, siginx, stopped, result, ghosts>>

Continue ==
    /\ child.state = "stopped"
    /\ child' = [child EXCEPT !.state = "running", !.notice = "continued"]
    /\ UNCHANGED <<pc, target, kids, doomed, flags, siginx, stopped, result, ghosts>>

\* a signal takes effect; of those a stopped process may get only KILL does
ChildDies ==
    /\ Alive
    /\ \E sig \in Names :
          /\ <<"child", sig>> \in doomed
          /\ child.state = "stopped" => sig = "KILL"
          /\ Ends(sig)
    /\ doomed' = {d \in doomed : d[1] # "child"}
    /\ UNCHANGED <<pc, target, kids, flags, siginx, stopped, result, ghosts>>

KidsDie ==
    /\ <<"kids", "any">> \in doomed
    /\ kids' = "none" /\ doomed' = doomed \ {<<"kids", "any">>}
    /\ UNCHANGED <<pc, target, child, flags, siginx, stopped, result, ghosts>>

\* kill(-child_pid, sig)
Deliver(sig) ==
    doomed' = doomed \cup (IF Alive /\ Mortal(child.nature, sig) THEN {<<"child", sig>>} ELSE {})
                     \cup (IF kids # "none" /\ Mortal(kids, sig) THEN {<<"kids", "any">>} ELSE {})
-----------------------------------------------------------------------------
\* Signals to the driver.

\* a handler has run: waitpid() is interrupted if the driver is in it, and
\* what the handler has set is all that is left of the signal if it is not
Interrupted ==
    /\ pc' = IF pc = "blocked" THEN "eintr" ELSE pc
    /\ missed' = (missed \/ pc # "blocked")

\* handle_alrm()
Alarm ==
    /\ armed
    /\ armed' = FALSE /\ flag' = TRUE
    /\ Interrupted
    /\ UNCHANGED <<target, child, kids, doomed, killSignal, siginx, stopped, result, asked, heard>>

\* handle_term_signal(), set up by the first wait and kept between two
Terminate ==
    /\ target > 0 /\ pc # "dead" /\ asked < MaxAsked
    /\ asked' = asked + 1
    /\ killSignal' = TRUE /\ flag' = TRUE
    /\ heard' = (heard \/ pc \in InCall)
    /\ Interrupted
    /\ UNCHANGED <<target, child, kids, doomed, armed, siginx, stopped, result>>
-----------------------------------------------------------------------------
\* The driver.

\* exec_file() and the beginning of wait_for_child(), which clears the flags;
\* fork() may fail
Fork ==
    /\ pc = "idle" /\ target < Targets
    /\ target' = target + 1
    /\ \E timed \in BOOLEAN, n \in Natures :
          /\ child' = [NoChild EXCEPT !.state = "running", !.timed = timed, !.nature = n]
          /\ armed' = timed
    /\ kids' = "none" /\ doomed' = {}
    /\ flag' = FALSE /\ killSignal' = FALSE /\ missed' = FALSE
    /\ siginx' = 0 /\ stopped' = FALSE /\ result' = NoResult
    /\ pc' = "enter"
    /\ UNCHANGED <<asked, heard>>

ForkFails ==
    /\ pc = "idle" /\ target < Targets
    /\ target' = target + 1
    /\ result' = [NoResult EXCEPT !.status = "execute"]
    /\ UNCHANGED <<pc, child, kids, doomed, flags, siginx, stopped, ghosts>>

\* waitpid(): nothing to tell, so it blocks
Enter ==
    /\ pc = "enter" /\ child.state # "zombie" /\ child.notice = "none"
    /\ pc' = "blocked"
    /\ UNCHANGED <<target, child, kids, doomed, flags, siginx, stopped, result, ghosts>>

\* what the caller is told of a child that ended
Status(how) ==
    CASE how = "exit 126" -> "execute" [] how = "exit 127" -> "exist" [] OTHER -> "ok"
Reported(how) == [exit |-> how, signaled |-> how \notin Exits,
                  status |-> Status(how)]

\* it tells of a child that has ended, and the loop ends
Reap ==
    /\ pc \in {"enter", "blocked"} /\ child.state = "zombie"
    /\ child' = [child EXCEPT !.state = "reaped"]
    /\ result' = Reported(child.how)
    /\ pc' = "clean" /\ armed' = FALSE
    /\ UNCHANGED <<target, kids, doomed, flag, killSignal, siginx, stopped, ghosts>>

\* or of one that was stopped or continued
Told ==
    /\ pc \in {"enter", "blocked"} /\ child.notice # "none"
    /\ stopped' = (child.notice = "stopped")
    /\ child' = [child EXCEPT !.notice = "none"]
    /\ pc' = "enter"
    /\ UNCHANGED <<target, kids, doomed, flags, siginx, result, ghosts>>

\* or it was interrupted: a child known to be stopped is given up
GiveUp ==
    /\ pc = "eintr" /\ stopped
    /\ result' = [NoResult EXCEPT !.exit = "STOP", !.signaled = TRUE]
    /\ pc' = "clean" /\ armed' = FALSE
    /\ UNCHANGED <<target, child, kids, doomed, flag, killSignal, siginx, stopped, ghosts>>

\* a mutant: the alarm is not set again after a signal
SignalOnce ==
    /\ pc = "eintr" /\ ~stopped /\ GroupExists
    /\ Deliver(Signals[siginx + 1])
    /\ siginx' = siginx + 1
    /\ IF siginx' = Len(Signals)
       THEN /\ result' = [NoResult EXCEPT !.status = "not killed"]
            /\ pc' = "clean" /\ armed' = FALSE
            /\ UNCHANGED flag
       ELSE /\ flag' = FALSE
            /\ pc' = "enter"
            /\ UNCHANGED <<result, armed>>
    /\ UNCHANGED <<target, child, kids, killSignal, stopped, ghosts>>

\* and another one is sent the next signal, with a second to act on it
Signal ==
    /\ pc = "eintr" /\ ~stopped /\ GroupExists
    /\ Deliver(Signals[siginx + 1])
    /\ siginx' = siginx + 1
    /\ IF siginx' = Len(Signals)
       THEN /\ result' = [NoResult EXCEPT !.status = "not killed"]
            /\ pc' = "clean" /\ armed' = FALSE
            /\ UNCHANGED flag
       ELSE /\ flag' = FALSE /\ armed' = TRUE
            /\ pc' = "enter"
            /\ UNCHANGED result
    /\ UNCHANGED <<target, child, kids, killSignal, stopped, ghosts>>

\* unless there is no such group (ESRCH)
NoGroup ==
    /\ pc = "eintr" /\ ~stopped /\ ~GroupExists
    /\ pc' = "enter" /\ missed' = TRUE
    /\ UNCHANGED <<target, child, kids, doomed, flags, siginx, stopped, result, asked, heard>>

\* after the wait, the rest of the group gets the rest of the signals
CleanUp ==
    /\ pc = "clean" /\ siginx < Len(Signals) /\ GroupExists
    /\ Deliver(Signals[siginx + 1])
    /\ siginx' = siginx + 1
    /\ UNCHANGED <<pc, target, child, kids, flags, stopped, result, ghosts>>

\* a mutant: the clean-up ends when the child itself has been waited for
CleanedEarly ==
    /\ pc = "clean" /\ (siginx = Len(Signals) \/ child.state = "reaped")
    /\ pc' = "check"
    /\ UNCHANGED <<target, child, kids, doomed, flags, siginx, stopped, result, ghosts>>

Cleaned ==
    /\ pc = "clean" /\ (siginx = Len(Signals) \/ ~GroupExists)
    /\ pc' = "check"
    /\ UNCHANGED <<target, child, kids, doomed, flags, siginx, stopped, result, ghosts>>

\* and a request to terminate is carried out
Check ==
    /\ pc = "check"
    /\ pc' = IF killSignal THEN "dead" ELSE "idle"
    /\ UNCHANGED <<target, child, kids, doomed, flags, siginx, stopped, result, ghosts>>

Driver == Fork \/ Enter \/ Reap \/ Told \/ GiveUp \/ Signal \/ NoGroup \/ CleanUp
          \/ Cleaned \/ Check
World == Group \/ Spawn \/ Exit \/ Stop \/ Continue \/ ChildDies \/ KidsDie
         \/ Alarm \/ Terminate
Finished == pc = "dead" \/ (pc = "idle" /\ target = Targets)
Next == Driver \/ ForkFails \/ World \/ (Finished /\ UNCHANGED vars)

\* The driver goes on, time passes, a process gets its signals and makes its
\* group.  Not fair: ending, being stopped or continued.
Fairness ==
    /\ WF_vars(Driver)
    /\ WF_vars(Alarm) /\ WF_vars(Group) /\ WF_vars(ChildDies) /\ WF_vars(KidsDie)

Spec == Init /\ [][Next]_vars /\ Fairness
-----------------------------------------------------------------------------
\* What the watch promises.

TypeOK ==
    /\ pc \in InCall \cup {"idle", "dead"}
    /\ target \in 0 .. Targets /\ siginx \in 0 .. Len(Signals) /\ asked \in 0 .. MaxAsked
    /\ kids \in Natures \cup {"none"} /\ child.nature \in Natures
    /\ child.state \in {"running", "stopped", "zombie", "reaped"}
    /\ child.how \in Exits \cup Names
    /\ \A b \in {armed, flag, killSignal, stopped, heard, missed} : b \in BOOLEAN

\* a child that ended is reported as it ended, one that is reported as stopped
\* or not killed has not, and the latter got every signal there is
ResultTrue ==
    pc \in {"clean", "check"} =>
        \/ /\ child.state = "reaped"
           /\ result.signaled = (child.how \in Names)
           /\ result.status # "ok" => child.how \in {"exit 126", "exit 127"}
        \/ result.exit = "STOP" /\ result.signaled /\ stopped
        \/ result.status = "not killed" /\ siginx = Len(Signals)

\* the driver signals nobody whose time is not up, unless it is itself to end
Unharmed == pc \in Waiting /\ (siginx > 0 \/ doomed # {}) => child.timed \/ heard

\* after the clean-up nobody is left in the group that can be ended
NothingLeft ==
    pc = "check" =>
        /\ Alive => child.nature = "immune" \/ <<"child", "KILL">> \in doomed
        /\ kids \notin {"none", "immune"} => <<"kids", "any">> \in doomed

\* a wait with a time limit, or one that has begun to signal, has an alarm
\* pending, unless a signal came while the driver was not in waitpid()
AlarmKept ==
    pc \in {"enter", "blocked"} /\ ~armed => missed \/ (~child.timed /\ siginx = 0)

\* a request to terminate that came during a wait outlives it
RequestKept == heard => pc # "idle"

(* The caller learns how the child ended, the child is not signalled before  *)
(* its time, no process that can be ended is left, an alarm is pending while *)
(* one is needed, and a request to terminate is not forgotten                *)
(* (wait_for_child(), util/exec.cpp:441).                                    *)
ChildWatched ==
    TypeOK /\ ResultTrue /\ Unharmed /\ NothingLeft /\ AlarmKept /\ RequestKept

\* the handler's flag is set, but nothing will interrupt waitpid() for the
\* driver to look at it, until the child ends by itself
Deaf == pc \in {"enter", "blocked"} /\ flag /\ ~armed

(* "To prevent the child process from running forever" (exec.cpp:427): a     *)
(* wait with a time limit, or one during which the driver is asked to        *)
(* terminate, ends, whatever the child does with its signals, or is deaf.    *)
WaitEnds == (pc \in Waiting /\ (child.timed \/ heard)) ~> (pc \notin Waiting \/ Deaf)

(* The same without the exception, which does not hold: a signal that comes  *)
(* between the test of alarm_timeout and waitpid() is lost (exec.cpp:487).   *)
WaitAlwaysEnds == (pc \in Waiting /\ child.timed) ~> (pc \notin Waiting)
=============================================================================
