--------------------------- MODULE ExecWatchProofs ---------------------------
(***************************************************************************)
(* The watch of the test driver keeps what ChildWatched says, for any       *)
(* number of targets and of requests to terminate.  What the property says  *)
(* of the end of a wait follows from what is so at each of its steps: who   *)
(* has been signalled and why, and what no signal can reach any more.       *)
(***************************************************************************)
EXTENDS ExecWatch, TLAPS

Children == [state : {"running", "stopped", "zombie", "reaped"}, how : Exits \cup Names,
             nature : Natures, group : BOOLEAN, timed : BOOLEAN,
             notice : {"none", "stopped", "continued"}]
Results == [exit : Exits \cup Names, signaled : BOOLEAN,
            status : {"ok", "execute", "exist", "not killed"}]

Typed ==
    /\ pc \in InCall \cup {"idle", "dead"}
    /\ target \in 0 .. Targets /\ siginx \in 0 .. 6 /\ asked \in 0 .. MaxAsked
    /\ kids \in Natures \cup {"none"} /\ child \in Children /\ result \in Results
    /\ doomed \subseteq ({"child"} \X Names) \cup {<<"kids", "any">>}
    /\ armed \in BOOLEAN /\ flag \in BOOLEAN /\ killSignal \in BOOLEAN
    /\ stopped \in BOOLEAN /\ heard \in BOOLEAN /\ missed \in BOOLEAN

\* whoever is stopped, signalled, has ended or is given up has made its group
Grouped ==
    \/ child.group
    \/ /\ child.state \in {"running", "reaped"} /\ child.notice = "none"
       /\ \A sig \in Names : <<"child", sig>> \notin doomed
       /\ siginx = 0 /\ ~stopped /\ pc \notin {"clean", "check"}

\* an alarm, and what it makes of the wait, is of a child that has a time
\* limit or of a driver that is to end
Asked ==
    /\ pc = "eintr" \/ (pc \in Waiting /\ armed) => child.timed \/ heard
    /\ heard => killSignal /\ pc \in InCall \cup {"dead"}

\* once KILL was sent, nobody who can be ended survives, or starts others
Doomed ==
    /\ Alive => child.nature = "immune" \/ <<"child", "KILL">> \in doomed
    /\ kids \notin {"none", "immune"} => <<"kids", "any">> \in doomed
Killed == siginx \in {5, 6} => Doomed

\* the last signal ends the wait
Signalled == pc \in Waiting => siginx # 6

WatchInv ==
    /\ Typed /\ Grouped /\ Asked /\ Killed /\ Signalled
    /\ ResultTrue /\ Unharmed /\ NothingLeft /\ AlarmKept

LEMMA SignalFacts ==
    /\ Len(Signals) = 6 /\ DOMAIN Signals = 1 .. 6
    /\ Signals[5] = "KILL" /\ Signals[6] = "KILL"
    /\ \A i \in 1 .. 6 : Signals[i] \in Names
    /\ Names = {"HUP", "INT", "QUIT", "TERM", "KILL", "STOP", "SEGV"}
    /\ Exits \cap Names = {}
<1>1. Len(Signals) = 6 /\ DOMAIN Signals = 1 .. 6
      BY DEF Signals
<1>2. /\ Signals[1] = "HUP" /\ Signals[2] = "INT" /\ Signals[3] = "QUIT"
      /\ Signals[4] = "TERM" /\ Signals[5] = "KILL" /\ Signals[6] = "KILL"
      BY DEF Signals
<1>3. 1 .. 6 = {1, 2, 3, 4, 5, 6}
      OBVIOUS
<1>4. {Signals[i] : i \in DOMAIN Signals} = {"HUP", "INT", "QUIT", "TERM", "KILL"}
      BY <1>1, <1>2, <1>3
<1>5. Names = {"HUP", "INT", "QUIT", "TERM", "KILL", "STOP", "SEGV"}
      BY <1>4 DEF Names
<1> QED BY <1>1, <1>2, <1>3, <1>5 DEF Exits
-----------------------------------------------------------------------------
LEMMA InitRight == Init => WatchInv
<1> SUFFICES ASSUME Init PROVE WatchInv
    OBVIOUS
<1> USE DEF Init
<1>1. NoChild \in Children /\ NoResult \in Results
      BY DEF Children, Results, NoChild, NoResult, Natures, Exits
<1>2. Typed
  <2>1. target \in 0 .. Targets /\ siginx \in 0 .. 6 /\ asked \in 0 .. MaxAsked
        BY ExecAssumption
  <2>2. /\ armed \in BOOLEAN /\ flag \in BOOLEAN /\ killSignal \in BOOLEAN
        /\ stopped \in BOOLEAN /\ heard \in BOOLEAN /\ missed \in BOOLEAN
        OBVIOUS
  <2>3. pc \in InCall \cup {"idle", "dead"} /\ kids \in Natures \cup {"none"}
        OBVIOUS
  <2>4. doomed \subseteq ({"child"} \X Names) \cup {<<"kids", "any">>}
        OBVIOUS
  <2> QED BY <1>1, <2>1, <2>2, <2>3, <2>4 DEF Typed
<1>3. child.state = "reaped" /\ child.notice = "none"
      BY DEF NoChild
<1>4. Grouped
      BY <1>3 DEF Grouped
<1>5. Asked /\ Killed /\ Signalled
      BY DEF Asked, Killed, Signalled, Waiting
<1>6. ResultTrue /\ Unharmed /\ NothingLeft /\ AlarmKept
      BY DEF ResultTrue, Unharmed, NothingLeft, AlarmKept, Waiting
<1> QED BY <1>2, <1>4, <1>5, <1>6 DEF WatchInv

\* the invariant says what is promised
LEMMA InvRight == WatchInv => ChildWatched
<1> SUFFICES ASSUME WatchInv PROVE ChildWatched
    OBVIOUS
<1> USE DEF WatchInv
<1>1. TypeOK
      BY SignalFacts DEF Typed, Children, TypeOK
<1>2. RequestKept
      BY DEF Asked, InCall, Waiting, RequestKept
<1> QED BY <1>1, <1>2 DEF ChildWatched

\* what becomes of whom a signal is sent to
LEMMA Delivered ==
  ASSUME Typed, NEW sig \in Names, Deliver(sig)
  PROVE  /\ doomed \subseteq doomed'
         /\ doomed' \subseteq ({"child"} \X Names) \cup {<<"kids", "any">>}
         /\ sig = "KILL" => /\ Alive => child.nature = "immune" \/ <<"child", "KILL">> \in doomed'
                            /\ kids \notin {"none", "immune"} => <<"kids", "any">> \in doomed'
<1>1. PICK A : A = IF Alive /\ Mortal(child.nature, sig) THEN {<<"child", sig>>} ELSE {}
      OBVIOUS
<1>2. PICK K : K = IF kids # "none" /\ Mortal(kids, sig) THEN {<<"kids", "any">>} ELSE {}
      OBVIOUS
<1>3. doomed' = doomed \cup A \cup K
      BY <1>1, <1>2 DEF Deliver
<1>4. A \subseteq {"child"} \X Names /\ K \subseteq {<<"kids", "any">>}
      BY <1>1, <1>2
<1>5. doomed' \subseteq ({"child"} \X Names) \cup {<<"kids", "any">>}
      BY <1>3, <1>4 DEF Typed
<1>6. child.nature \in {"meek", "stubborn", "immune"} /\ kids \in {"none", "meek", "stubborn", "immune"}
      BY DEF Typed, Children, Natures
<1> QED BY <1>1, <1>2, <1>3, <1>5, <1>6 DEF Mortal

(* The processes: what the driver knows and has done stays as it is.          *)
DriverStays == UNCHANGED <<pc, target, armed, flag, killSignal, siginx, stopped, result, asked, heard, missed>>

LEMMA WorldKept ==
  ASSUME WatchInv, DriverStays, child' \in Children, kids' \in Natures \cup {"none"}, doomed' \subseteq doomed,
         child'.nature = child.nature, child'.timed = child.timed,
         child.state = "reaped" => child' = child,
         Grouped', Doomed => Doomed'
  PROVE  WatchInv'
<1> USE DEF WatchInv, DriverStays
<1>1. Typed'
      BY DEF Typed
<1>2. Asked' /\ Signalled'
      BY DEF Asked, Signalled
<1>3. Killed'
      BY DEF Killed
<1>4. ResultTrue'
      BY DEF ResultTrue
<1>5. Unharmed'
      BY DEF Unharmed
<1>6. NothingLeft'
  <2>1. NothingLeft <=> (pc = "check" => Doomed)
        BY DEF NothingLeft, Doomed
  <2>2. NothingLeft' <=> (pc' = "check" => Doomed')
        BY DEF NothingLeft, Doomed
  <2> QED BY <2>1, <2>2
<1>7. AlarmKept'
      BY DEF AlarmKept
<1> QED BY <1>1, <1>2, <1>3, <1>4, <1>5, <1>6, <1>7

LEMMA GroupKept == ASSUME WatchInv, Group PROVE WatchInv'
<1>1. /\ child' \in Children /\ child'.group = TRUE
      /\ child'.nature = child.nature /\ child'.timed = child.timed /\ child'.state = child.state
      /\ Alive /\ DriverStays /\ UNCHANGED <<kids, doomed>>
      BY DEF Group, Children, WatchInv, Typed, DriverStays, flags, ghosts
<1>2. Grouped'
      BY <1>1 DEF Grouped
<1>3. Doomed => Doomed'
      BY <1>1 DEF Doomed, Alive
<1> QED BY <1>1, <1>2, <1>3, WorldKept DEF Alive, WatchInv, Typed

LEMMA SpawnKept == ASSUME WatchInv, Spawn PROVE WatchInv'
<1>1. /\ DriverStays /\ UNCHANGED <<child, doomed>> /\ kids' \in Natures
      /\ Alive /\ child.nature # "immune" /\ <<"child", "KILL">> \notin doomed
      BY DEF Spawn, DriverStays, flags, ghosts, Alive
<1>2. ~Doomed
      BY <1>1 DEF Doomed
<1>3. Grouped'
      BY <1>1 DEF Grouped, WatchInv, DriverStays
<1> QED BY <1>1, <1>2, <1>3, WorldKept DEF WatchInv, Typed

\* the child ends, with the signals it was sent
LEMMA EndsKept ==
  ASSUME WatchInv, DriverStays, UNCHANGED kids, NEW how \in Exits \cup Names, Ends(how), Alive, child.group,
         doomed' = doomed \/ doomed' = {e \in doomed : e[1] # "child"}
  PROVE  WatchInv'
<1>1. /\ child' \in Children /\ child'.group = child.group /\ child'.state = "zombie"
      /\ child'.nature = child.nature /\ child'.timed = child.timed
      BY DEF Ends, Children, WatchInv, Typed
<1>2. Grouped'
      BY <1>1 DEF Grouped
<1>3. doomed' \subseteq doomed /\ (<<"kids", "any">> \in doomed => <<"kids", "any">> \in doomed')
      OBVIOUS
<1>4. Doomed => Doomed'
      BY <1>1, <1>3 DEF Doomed, Alive
<1> QED BY <1>1, <1>2, <1>3, <1>4, WorldKept DEF Alive, WatchInv, Typed

LEMMA ExitKept == ASSUME WatchInv, Exit PROVE WatchInv'
<1>1. PICK how \in Exits \cup Names : Ends(how)
      BY SignalFacts DEF Exit
<1> QED BY <1>1, EndsKept DEF Exit, DriverStays, flags, ghosts, Alive

LEMMA ChildDiesKept == ASSUME WatchInv, ChildDies PROVE WatchInv'
<1>1. PICK sig \in Names : <<"child", sig>> \in doomed /\ Ends(sig)
      BY DEF ChildDies
<1>2. child.group
      BY <1>1 DEF WatchInv, Grouped
<1> QED BY <1>1, <1>2, EndsKept DEF ChildDies, DriverStays, flags, ghosts

LEMMA StopKept == ASSUME WatchInv, Stop \/ Continue PROVE WatchInv'
<1>1. /\ child' \in Children /\ child'.group = child.group /\ child'.state \in {"stopped", "running"}
      /\ child'.nature = child.nature /\ child'.timed = child.timed
      /\ Alive /\ DriverStays /\ UNCHANGED <<kids, doomed>>
      BY DEF Stop, Continue, Children, WatchInv, Typed, DriverStays, flags, ghosts, Alive
<1>2. child.group
      BY DEF Stop, Continue, WatchInv, Grouped
<1>3. Grouped'
      BY <1>1, <1>2 DEF Grouped
<1>4. Doomed => Doomed'
      BY <1>1 DEF Doomed, Alive
<1> QED BY <1>1, <1>3, <1>4, WorldKept DEF Alive, WatchInv, Typed

LEMMA KidsDieKept == ASSUME WatchInv, KidsDie PROVE WatchInv'
<1>1. DriverStays /\ UNCHANGED child /\ kids' = "none" /\ doomed' = doomed \ {<<"kids", "any">>}
      BY DEF KidsDie, DriverStays, flags, ghosts
<1>2. \A sig \in Names : <<"child", sig>> \in doomed' <=> <<"child", sig>> \in doomed
      BY <1>1
<1>3. Grouped'
      BY <1>1, <1>2 DEF Grouped, WatchInv, DriverStays
<1>4. Doomed => Doomed'
      BY <1>1 DEF Doomed, Alive
<1> QED BY <1>1, <1>3, <1>4, WorldKept DEF WatchInv, Typed

(* Signals to the driver: an alarm is of a child that has a time limit, or of *)
(* one that is signalled already, a request sets what ends the driver.        *)
LEMMA AlarmStepKept == ASSUME WatchInv, Alarm PROVE WatchInv'
<1> USE DEF WatchInv
<1>1. /\ armed /\ armed' = FALSE /\ flag' = TRUE
      /\ pc' = IF pc = "blocked" THEN "eintr" ELSE pc
      /\ missed' = (missed \/ pc # "blocked")
      /\ UNCHANGED <<target, child, kids, doomed, killSignal, siginx, stopped, result, asked, heard>>
      BY DEF Alarm, Interrupted
<1>2. Typed'
  <2>1. pc' \in InCall \cup {"idle", "dead"}
        BY <1>1 DEF Typed, InCall, Waiting
  <2>2. missed' \in BOOLEAN /\ armed' \in BOOLEAN /\ flag' \in BOOLEAN
        BY <1>1
  <2> QED BY <1>1, <2>1, <2>2 DEF Typed
<1>3. pc' \in Waiting <=> pc \in Waiting
      BY <1>1 DEF Waiting
<1>4. Grouped' /\ Killed' /\ Signalled'
      BY <1>1, <1>3 DEF Grouped, Killed, Doomed, Alive, Signalled
<1>5. Asked'
      BY <1>1, <1>3 DEF Asked, InCall, Waiting
<1>6. ResultTrue' /\ NothingLeft' /\ Unharmed'
      BY <1>1, <1>3 DEF ResultTrue, NothingLeft, Alive, Unharmed
<1>7. AlarmKept'
      BY <1>1 DEF AlarmKept
<1> QED BY <1>2, <1>4, <1>5, <1>6, <1>7

LEMMA TerminateKept == ASSUME WatchInv, Terminate PROVE WatchInv'
<1> USE DEF WatchInv
<1>1. /\ pc # "dead" /\ asked < MaxAsked /\ asked' = asked + 1 /\ killSignal' = TRUE /\ flag' = TRUE
      /\ pc' = IF pc = "blocked" THEN "eintr" ELSE pc
      /\ missed' = (missed \/ pc # "blocked") /\ heard' = (heard \/ pc \in InCall)
      /\ UNCHANGED <<target, child, kids, doomed, armed, siginx, stopped, result>>
      BY DEF Terminate, Interrupted
<1>2. Typed'
  <2>1. pc' \in InCall \cup {"idle", "dead"}
        BY <1>1 DEF Typed, InCall, Waiting
  <2>2. missed' \in BOOLEAN /\ heard' \in BOOLEAN /\ flag' \in BOOLEAN /\ killSignal' \in BOOLEAN
        BY <1>1
  <2>3. asked' \in 0 .. MaxAsked
        BY <1>1, ExecAssumption DEF Typed
  <2> QED BY <1>1, <2>1, <2>2, <2>3 DEF Typed
<1>3. pc' \in Waiting <=> pc \in Waiting
      BY <1>1 DEF Waiting
<1>4. Grouped' /\ Killed' /\ Signalled'
      BY <1>1, <1>3 DEF Grouped, Killed, Doomed, Alive, Signalled
<1>5. Asked'
      BY <1>1, <1>3 DEF Asked, InCall, Waiting
<1>6. ResultTrue' /\ NothingLeft' /\ Unharmed'
      BY <1>1, <1>3 DEF ResultTrue, NothingLeft, Alive, Unharmed
<1>7. AlarmKept'
      BY <1>1 DEF AlarmKept
<1> QED BY <1>2, <1>4, <1>5, <1>6, <1>7
-----------------------------------------------------------------------------
(* The driver.                                                                *)
LEMMA ForkKept == ASSUME WatchInv, Fork PROVE WatchInv'
<1> USE DEF WatchInv
<1>1. PICK timed \in BOOLEAN, n \in Natures :
         /\ child' = [NoChild EXCEPT !.state = "running", !.timed = timed, !.nature = n]
         /\ armed' = timed
      BY DEF Fork
<1>2. /\ pc = "idle" /\ pc' = "enter" /\ target < Targets /\ target' = target + 1
      /\ kids' = "none" /\ doomed' = {} /\ flag' = FALSE /\ killSignal' = FALSE /\ missed' = FALSE
      /\ siginx' = 0 /\ stopped' = FALSE /\ result' = NoResult /\ UNCHANGED <<asked, heard>>
      BY DEF Fork
<1>3. child' \in Children /\ child'.state = "running" /\ child'.notice = "none" /\ child'.timed = timed
      BY <1>1 DEF Children, NoChild, Natures, Exits
<1>4. NoResult \in Results
      BY DEF Results, NoResult, Exits
<1>5. Typed'
  <2>1. target' \in 0 .. Targets
        BY <1>2, ExecAssumption DEF Typed
  <2>2. armed' \in BOOLEAN /\ flag' \in BOOLEAN /\ killSignal' \in BOOLEAN /\ stopped' \in BOOLEAN
        /\ missed' \in BOOLEAN
        BY <1>1, <1>2
  <2>3. pc' \in InCall \cup {"idle", "dead"} /\ siginx' \in 0 .. 6
        BY <1>2 DEF InCall, Waiting
  <2> QED BY <1>2, <1>3, <1>4, <2>1, <2>2, <2>3 DEF Typed
<1>6. ~heard
      BY <1>2 DEF Asked, InCall, Waiting
<1>7. Grouped' /\ Killed' /\ Signalled'
      BY <1>2, <1>3 DEF Grouped, Killed, Signalled
<1>8. Asked'
      BY <1>1, <1>2, <1>3, <1>6 DEF Asked
<1>9. ResultTrue' /\ NothingLeft' /\ Unharmed'
      BY <1>2 DEF ResultTrue, NothingLeft, Unharmed
<1>10. AlarmKept'
       BY <1>1, <1>2, <1>3 DEF AlarmKept
<1> QED BY <1>5, <1>7, <1>8, <1>9, <1>10

LEMMA ForkFailsKept == ASSUME WatchInv, ForkFails PROVE WatchInv'
<1> USE DEF WatchInv
<1>1. /\ pc = "idle" /\ target < Targets /\ target' = target + 1
      /\ result' = [NoResult EXCEPT !.status = "execute"]
      /\ UNCHANGED <<pc, child, kids, doomed, armed, flag, killSignal, siginx, stopped, asked, heard, missed>>
      BY DEF ForkFails, flags, ghosts
<1>2. Typed'
  <2>1. target' \in 0 .. Targets
        BY <1>1, ExecAssumption DEF Typed
  <2>2. result' \in Results
        BY <1>1 DEF NoResult, Results, Exits
  <2> QED BY <1>1, <2>1, <2>2 DEF Typed
<1>3. Grouped' /\ Killed' /\ Signalled' /\ Asked'
      BY <1>1 DEF Grouped, Killed, Doomed, Alive, Signalled, Asked
<1>4. ResultTrue' /\ NothingLeft' /\ Unharmed' /\ AlarmKept'
      BY <1>1 DEF ResultTrue, NothingLeft, Unharmed, AlarmKept, Alive, Waiting
<1> QED BY <1>2, <1>3, <1>4

\* a step of the wait that stays in it and signals nobody
LEMMA WaitKept ==
  ASSUME WatchInv, NEW to \in {"enter", "blocked"}, pc \in Waiting, pc' = to,
         child' \in Children, child'.state = child.state, child'.group = child.group,
         child'.nature = child.nature, child'.timed = child.timed,
         child'.notice \in {"none", child.notice},
         stopped' \in BOOLEAN, stopped' => child.group,
         missed' = missed \/ missed' = TRUE, pc = "eintr" => missed' = TRUE,
         UNCHANGED <<target, kids, doomed, armed, flag, killSignal, siginx, result, asked, heard>>
  PROVE  WatchInv'
<1> USE DEF WatchInv
<1>1. missed' \in BOOLEAN
      BY DEF Typed
<1>2. Typed'
      BY <1>1 DEF Typed, InCall, Waiting
<1>3. Grouped'
      BY DEF Grouped
<1>4. Killed' /\ Signalled'
      BY DEF Killed, Doomed, Alive, Signalled
<1>5. Asked'
      BY DEF Asked, InCall, Waiting
<1>6. ResultTrue' /\ NothingLeft'
      BY DEF ResultTrue, NothingLeft
<1>7. Unharmed'
      BY DEF Unharmed
<1>8. AlarmKept'
      BY DEF AlarmKept, Waiting
<1> QED BY <1>2, <1>3, <1>4, <1>5, <1>6, <1>7, <1>8

LEMMA EnterKept == ASSUME WatchInv, Enter \/ Told \/ NoGroup PROVE WatchInv'
<1> USE DEF WatchInv, flags, ghosts, Waiting
<1>1. CASE Enter
  <2>1. UNCHANGED child /\ child \in Children
        BY <1>1 DEF Enter, Typed
  <2>2. stopped' \in BOOLEAN /\ (stopped' => child.group)
        BY <1>1 DEF Enter, Typed, Grouped
  <2> QED BY <1>1, <2>1, <2>2, WaitKept DEF Enter
<1>2. CASE Told
  <2>1. child' \in Children /\ child'.state = child.state /\ child'.group = child.group
        /\ child'.nature = child.nature /\ child'.timed = child.timed /\ child'.notice = "none"
        BY <1>2 DEF Told, Typed, Children
  <2>2. stopped' \in BOOLEAN /\ (stopped' => child.group)
        BY <1>2 DEF Told, Grouped
  <2> QED BY <1>2, <2>1, <2>2, WaitKept DEF Told
<1>3. CASE NoGroup
  <2>1. UNCHANGED child /\ child \in Children
        BY <1>3 DEF NoGroup, Typed
  <2>2. stopped' \in BOOLEAN /\ (stopped' => child.group)
        BY <1>3 DEF NoGroup, Typed, Grouped
  <2> QED BY <1>3, <2>1, <2>2, WaitKept DEF NoGroup
<1> QED BY <1>1, <1>2, <1>3

\* the wait ends, with nobody signalled in this step
LEMMA WaitDone ==
  ASSUME WatchInv, pc \in Waiting, pc' = "clean", armed' = FALSE,
         child' \in Children, child'.state \in {child.state, "reaped"}, child'.nature = child.nature,
         child'.group, result' \in Results, ResultTrue',
         UNCHANGED <<target, kids, doomed, flag, killSignal, siginx, stopped, asked, heard, missed>>
  PROVE  WatchInv'
<1> USE DEF WatchInv
<1>1. Typed'
      BY DEF Typed, InCall
<1>2. Grouped' /\ Signalled' /\ Unharmed' /\ NothingLeft' /\ AlarmKept'
      BY DEF Grouped, Signalled, Waiting, Unharmed, NothingLeft, AlarmKept
<1>3. Killed'
      BY DEF Killed, Doomed, Alive
<1>4. Asked'
      BY DEF Asked, InCall, Waiting
<1> QED BY <1>1, <1>2, <1>3, <1>4

LEMMA ReapKept == ASSUME WatchInv, Reap PROVE WatchInv'
<1> USE DEF WatchInv
<1>1. /\ pc \in Waiting /\ pc' = "clean" /\ armed' = FALSE /\ child.state = "zombie"
      /\ result' = Reported(child.how)
      /\ UNCHANGED <<target, kids, doomed, flag, killSignal, siginx, stopped, asked, heard, missed>>
      BY DEF Reap, Waiting, ghosts
<1>2. /\ child' \in Children /\ child'.state = "reaped" /\ child'.nature = child.nature
      /\ child'.group = child.group /\ child'.how = child.how
      BY DEF Reap, Typed, Children
<1>3. child.group
      BY <1>1 DEF Grouped
<1>4. PICK how \in Exits \cup Names : how = child.how
      BY DEF Typed, Children
<1>5. PICK status : status = Status(how)
      OBVIOUS
<1>6. status \in {"ok", "execute", "exist"} /\ (status # "ok" => how \in {"exit 126", "exit 127"})
  <2>1. CASE how = "exit 126"
        BY <1>5, <2>1 DEF Status
  <2>2. CASE how = "exit 127"
        BY <1>5, <2>2 DEF Status
  <2>3. CASE how # "exit 126" /\ how # "exit 127"
        BY <1>5, <2>3 DEF Status
  <2> QED BY <2>1, <2>2, <2>3
<1>7. result' = [exit |-> how, signaled |-> how \notin Exits, status |-> status]
      BY <1>1, <1>4, <1>5 DEF Reported
<1>8. result' \in Results
      BY <1>6, <1>7 DEF Results
<1>9. result'.signaled = (how \in Names)
      BY <1>7, SignalFacts
<1>10. ResultTrue'
       BY <1>2, <1>4, <1>6, <1>7, <1>9 DEF ResultTrue
<1> QED BY <1>1, <1>2, <1>3, <1>8, <1>10, WaitDone

LEMMA GiveUpKept == ASSUME WatchInv, GiveUp PROVE WatchInv'
<1> USE DEF WatchInv
<1>1. /\ pc \in Waiting /\ pc' = "clean" /\ armed' = FALSE /\ stopped
      /\ result' = [NoResult EXCEPT !.exit = "STOP", !.signaled = TRUE]
      /\ UNCHANGED <<target, child, kids, doomed, flag, killSignal, siginx, stopped, asked, heard, missed>>
      BY DEF GiveUp, Waiting, ghosts
<1>2. child.group /\ child \in Children
      BY <1>1 DEF Grouped, Typed
<1>3. result' \in Results /\ result'.exit = "STOP" /\ result'.signaled
      BY <1>1, SignalFacts DEF NoResult, Results
<1>4. ResultTrue'
      BY <1>1, <1>3 DEF ResultTrue
<1> QED BY <1>1, <1>2, <1>3, <1>4, WaitDone

\* what the next signal does: the last two of the six are KILL
LEMMA NextSignal ==
  ASSUME WatchInv, siginx < 6, Deliver(Signals[siginx + 1]), siginx' = siginx + 1, UNCHANGED <<child, kids>>
  PROVE  /\ siginx' \in 1 .. 6 /\ Killed'
         /\ doomed' \subseteq ({"child"} \X Names) \cup {<<"kids", "any">>}
<1> USE DEF WatchInv
<1>1. siginx + 1 \in 1 .. 6
      BY DEF Typed
<1>2. PICK sig \in Names : sig = Signals[siginx + 1]
      BY <1>1, SignalFacts
<1>3. siginx + 1 \in {5, 6} => sig = "KILL"
      BY <1>2, SignalFacts
<1>4. /\ doomed' \subseteq ({"child"} \X Names) \cup {<<"kids", "any">>}
      /\ sig = "KILL" => /\ Alive => child.nature = "immune" \/ <<"child", "KILL">> \in doomed'
                         /\ kids \notin {"none", "immune"} => <<"kids", "any">> \in doomed'
      BY <1>2, Delivered
<1>5. sig = "KILL" => Doomed'
      BY <1>4 DEF Doomed, Alive
<1> QED BY <1>1, <1>3, <1>4, <1>5 DEF Killed

LEMMA SignalKept == ASSUME WatchInv, Signal PROVE WatchInv'
<1> USE DEF WatchInv
<1>1. /\ pc = "eintr" /\ ~stopped /\ GroupExists /\ Deliver(Signals[siginx + 1]) /\ siginx' = siginx + 1
      /\ UNCHANGED <<target, child, kids, killSignal, stopped, asked, heard, missed>>
      BY DEF Signal, ghosts
<1>2. siginx < 6
      BY <1>1 DEF Signalled, Waiting, Typed
<1>3. /\ siginx' \in 1 .. 6 /\ Killed'
      /\ doomed' \subseteq ({"child"} \X Names) \cup {<<"kids", "any">>}
      BY <1>1, <1>2, NextSignal
<1>4. child.group /\ (child.timed \/ heard)
      BY <1>1 DEF GroupExists, Asked
<1>5. CASE siginx' = 6
  <2>1. /\ pc' = "clean" /\ armed' = FALSE /\ flag' = flag
        /\ result' = [NoResult EXCEPT !.status = "not killed"]
        BY <1>5, SignalFacts DEF Signal
  <2>2. result' \in Results /\ result'.status = "not killed"
        BY <2>1 DEF NoResult, Results, Exits
  <2>3. Typed'
    <3>1. pc' \in InCall \cup {"idle", "dead"} /\ armed' \in BOOLEAN /\ flag' \in BOOLEAN
          BY <2>1 DEF InCall, Typed
    <3>2. siginx' \in 0 .. 6 /\ target' \in 0 .. Targets /\ asked' \in 0 .. MaxAsked
          BY <1>1, <1>3 DEF Typed
    <3>3. killSignal' \in BOOLEAN /\ stopped' \in BOOLEAN /\ heard' \in BOOLEAN /\ missed' \in BOOLEAN
          BY <1>1 DEF Typed
    <3>4. kids' \in Natures \cup {"none"} /\ child' \in Children
          BY <1>1 DEF Typed
    <3> QED BY <1>3, <2>2, <3>1, <3>2, <3>3, <3>4 DEF Typed
  <2>4. Grouped' /\ Signalled' /\ Unharmed' /\ NothingLeft' /\ AlarmKept'
        BY <1>1, <1>4, <2>1 DEF Grouped, Signalled, Waiting, Unharmed, NothingLeft, AlarmKept
  <2>5. Asked'
        BY <1>1, <2>1 DEF Asked, InCall, Waiting
  <2>6. ResultTrue'
        BY <1>5, <2>2, SignalFacts DEF ResultTrue
  <2> QED BY <1>3, <2>3, <2>4, <2>5, <2>6
<1>6. CASE siginx' # 6
  <2>1. pc' = "enter" /\ flag' = FALSE /\ armed' = TRUE /\ result' = result
        BY <1>6, SignalFacts DEF Signal
  <2>2. armed' \in BOOLEAN /\ flag' \in BOOLEAN
        BY <2>1
  <2>3. Typed'
        BY <1>1, <1>3, <2>1, <2>2 DEF Typed, InCall, Waiting
  <2>4. Grouped' /\ NothingLeft' /\ AlarmKept' /\ ResultTrue'
        BY <1>1, <1>4, <2>1 DEF Grouped, NothingLeft, AlarmKept, ResultTrue
  <2>5. Signalled' /\ Unharmed'
        BY <1>1, <1>4, <1>6 DEF Signalled, Unharmed
  <2>6. Asked'
        BY <1>1, <1>4, <2>1 DEF Asked, InCall, Waiting
  <2> QED BY <1>3, <2>3, <2>4, <2>5, <2>6
<1> QED BY <1>5, <1>6

LEMMA CleanUpKept == ASSUME WatchInv, CleanUp PROVE WatchInv'
<1> USE DEF WatchInv
<1>1. /\ pc = "clean" /\ siginx < 6 /\ GroupExists /\ Deliver(Signals[siginx + 1]) /\ siginx' = siginx + 1
      /\ UNCHANGED <<pc, target, child, kids, armed, flag, killSignal, stopped, result, asked, heard, missed>>
      BY SignalFacts DEF CleanUp, flags, ghosts
<1>2. /\ siginx' \in 1 .. 6 /\ Killed'
      /\ doomed' \subseteq ({"child"} \X Names) \cup {<<"kids", "any">>}
      BY <1>1, NextSignal
<1>3. Typed'
      BY <1>1, <1>2 DEF Typed
<1>4. Grouped' /\ NothingLeft' /\ AlarmKept'
      BY <1>1 DEF GroupExists, Grouped, NothingLeft, AlarmKept
<1>5. Signalled' /\ Unharmed' /\ Asked'
      BY <1>1 DEF Signalled, Unharmed, Asked, Waiting
<1>6. siginx # Len(Signals)
      BY <1>1, SignalFacts
<1>7. ResultTrue'
      BY <1>1, <1>6 DEF ResultTrue
<1> QED BY <1>2, <1>3, <1>4, <1>5, <1>7

\* whoever is left after the clean-up has got KILL, or there is nobody
LEMMA CleanedKept == ASSUME WatchInv, Cleaned PROVE WatchInv'
<1> USE DEF WatchInv
<1>1. /\ pc = "clean" /\ (siginx = 6 \/ ~GroupExists) /\ pc' = "check"
      /\ UNCHANGED <<target, child, kids, doomed, armed, flag, killSignal, siginx, stopped, result,
                     asked, heard, missed>>
      BY SignalFacts DEF Cleaned, flags, ghosts
<1>2. Doomed
  <2>1. CASE siginx = 6
        BY <2>1 DEF Killed
  <2>2. CASE ~GroupExists
        BY <1>1, <2>2 DEF GroupExists, Grouped, Doomed, Alive
  <2> QED BY <1>1, <2>1, <2>2
<1>3. NothingLeft'
      BY <1>1, <1>2 DEF Doomed, Alive, NothingLeft
<1>4. Typed'
      BY <1>1 DEF Typed, InCall
<1>5. Grouped' /\ Killed' /\ Signalled' /\ Unharmed' /\ AlarmKept'
      BY <1>1 DEF Grouped, Killed, Doomed, Alive, Signalled, Waiting, Unharmed, AlarmKept
<1>6. Asked'
      BY <1>1 DEF Asked, InCall, Waiting
<1>7. ResultTrue'
      BY <1>1 DEF ResultTrue
<1> QED BY <1>3, <1>4, <1>5, <1>6, <1>7

LEMMA CheckKept == ASSUME WatchInv, Check PROVE WatchInv'
<1> USE DEF WatchInv
<1>1. /\ pc = "check" /\ pc' = IF killSignal THEN "dead" ELSE "idle"
      /\ UNCHANGED <<target, child, kids, doomed, armed, flag, killSignal, siginx, stopped, result,
                     asked, heard, missed>>
      BY DEF Check, flags, ghosts
<1>2. pc' \in {"dead", "idle"} /\ (killSignal => pc' = "dead")
      BY <1>1
<1>3. Typed'
      BY <1>1, <1>2 DEF Typed
<1>4. Grouped'
      BY <1>1, <1>2 DEF Grouped
<1>5. Asked'
      BY <1>1, <1>2 DEF Asked, Waiting
<1>6. Killed' /\ Signalled' /\ Unharmed' /\ AlarmKept'
      BY <1>1, <1>2 DEF Killed, Doomed, Alive, Signalled, Waiting, Unharmed, AlarmKept
<1>7. ResultTrue' /\ NothingLeft'
      BY <1>2 DEF ResultTrue, NothingLeft
<1> QED BY <1>3, <1>4, <1>5, <1>6, <1>7
-----------------------------------------------------------------------------
LEMMA StepRight == WatchInv /\ [Next]_vars => WatchInv'
<1> SUFFICES ASSUME WatchInv, [Next]_vars PROVE WatchInv'
    OBVIOUS
<1>1. CASE Driver
      BY <1>1, ForkKept, EnterKept, ReapKept, GiveUpKept, SignalKept, CleanUpKept, CleanedKept, CheckKept
      DEF Driver
<1>2. CASE ForkFails
      BY <1>2, ForkFailsKept
<1>3. CASE World
      BY <1>3, GroupKept, SpawnKept, ExitKept, StopKept, ChildDiesKept, KidsDieKept, AlarmStepKept,
         TerminateKept
      DEF World
<1>4. CASE UNCHANGED vars
  <2>1. UNCHANGED <<pc, target, child, kids, doomed, armed, flag, killSignal, siginx, stopped, result,
                    asked, heard, missed>>
        BY <1>4 DEF vars, flags, ghosts
  <2>2. Typed' /\ Grouped' /\ Asked' /\ Signalled'
        BY <2>1 DEF WatchInv, Typed, Grouped, Asked, Signalled
  <2>3. Killed' /\ NothingLeft' /\ ResultTrue'
        BY <2>1 DEF WatchInv, Killed, Doomed, Alive, NothingLeft, ResultTrue
  <2>4. Unharmed' /\ AlarmKept'
        BY <2>1 DEF WatchInv, Unharmed, AlarmKept
  <2> QED BY <2>2, <2>3, <2>4 DEF WatchInv
<1> QED BY <1>1, <1>2, <1>3, <1>4 DEF Next

(* Whatever the child does with its signals, and at whichever of its steps    *)
(* the driver is interrupted: the caller learns how the child ended, nobody   *)
(* is signalled before the time is up, nobody who can be ended is left, an    *)
(* alarm is pending while one is needed, and a request to terminate is not    *)
(* forgotten (wait_for_child(), util/exec.cpp:441).                           *)
THEOREM ChildWatchedAlways == Spec => []ChildWatched
<1> QED BY InitRight, StepRight, InvRight, PTL DEF Spec
=============================================================================
