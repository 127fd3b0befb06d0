------------------------- MODULE AgentManagerProofs -------------------------
(***************************************************************************)
(* Proofs about AgentManager for any ids, instances, requests and          *)
(* directories, and whatever the clients ask for.                          *)
(***************************************************************************)
EXTENDS AgentManager, TLAPS

\* What a suspended request holds: the instance it opens is opening and no
\* other request's, the one it closes is no longer open.
CallOK(c) ==
    LET call == calls[c] IN
    /\ call.op # "idle" => call.inst \in Instances
    /\ call.op \notin {"idle", "create"} => call.id \in Ids
    /\ call.op \in {"create", "resume"} =>
          /\ call.row \in Row /\ call.row.cwd \in Cwds
          /\ instance[call.inst].phase = "opening"
    /\ call.op = "resume" => call.row.handle
    /\ call.op \in {"close", "delete"} => instance[call.inst].phase \in {"closing", "closed"}
    /\ call.op \in {"setModel", "modelSet", "late"} => call.arg \in Models
    /\ call.op = "setLevel" => call.arg \in Levels \cup {None}

CallsOK == \A c \in Requests : CallOK(c)

OpenersApart ==
    \A c, d \in Requests :
        /\ calls[c].op \in {"create", "resume"} /\ calls[d].op \in {"create", "resume"}
        /\ calls[c].inst = calls[d].inst
        => c = d

DrainingClosed == \A a \in draining : instance[a].phase \in {"closing", "closed"}

OpenHasId == \A a \in Instances : instance[a].phase = "open" => instance[a].id \in Ids

\* The inductive invariant behind the theorems below.
IInv ==
    /\ TypeOK
    /\ CallsOK
    /\ OpenersApart
    /\ DrainingClosed
    /\ OpenHasId
    /\ LoadedIsOpen

-----------------------------------------------------------------------------
LEMMA ResolveResumeCwdType ==
    ASSUME NEW stored, NEW requested, NEW dirs \in SUBSET Cwds
    PROVE  ResolveResumeCwd(stored, requested, dirs) \in Cwds
BY ConstantsAssumption DEF ResolveResumeCwd

LEMMA SetPhaseType ==
    ASSUME TypeOK, NEW a \in Instances, NEW p \in Phases
    PROVE  /\ SetPhase(a, p) \in [Instances -> Instance]
           /\ \A b \in Instances : 
                 /\ b # a => SetPhase(a, p)[b] = instance[b]
                 /\ SetPhase(a, p)[a].phase = p
                 /\ SetPhase(a, p)[b].id = instance[b].id
                 /\ SetPhase(a, p)[b].model = instance[b].model
                 /\ SetPhase(a, p)[b].handle = instance[b].handle
                 /\ SetPhase(a, p)[b].drifted <=> instance[b].drifted
BY DEF TypeOK, SetPhase, Instance

LEMMA OpenType ==
    ASSUME TypeOK, NEW a \in Instances, NEW id \in Ids \cup {None}, NEW row \in Row,
           Open(a, id, row)
    PROVE  /\ instance' \in [Instances -> Instance]
           /\ instance'[a].phase = "opening" /\ instance'[a].model = row.model
           /\ instance[a].phase = "unused"
           /\ \A b \in Instances \ {a} : instance'[b] = instance[b]
BY DEF TypeOK, Open, Instance, Row, Phases

LEMMA RegisterType ==
    ASSUME TypeOK, NEW a \in Instances, NEW id \in Ids, NEW row \in Row,
           Register(a, id, row)
    PROVE  /\ instance' \in [Instances -> Instance]
           /\ sessions' \in [Ids -> Instances \cup {None}]
           /\ store' \in [Ids -> Row \cup {None}]
           /\ instance'[a].phase = "open" /\ instance'[a].id = id
           /\ instance'[a].handle = row.handle /\ instance'[a].model = instance[a].model
           /\ \A b \in Instances \ {a} : instance'[b] = instance[b]
           /\ sessions'[id] = a /\ store'[id] = row
           /\ \A i \in Ids \ {id} : sessions'[i] = sessions[i] /\ store'[i] = store[i]
           /\ displaced \subseteq displaced' /\ displaced' \subseteq Instances
           /\ sessions[id] = None \/ sessions[id] \in displaced'
           /\ \A b \in displaced' : b \in displaced \/ b = sessions[id]
BY DEF TypeOK, Register, Instance, Row, Phases

LEMMA IdleType == Idle \in Call
BY DEF Idle, Call, Ops

LEMMA InitIInv == Init => IInv
BY ConstantsAssumption, IdleType
   DEF Init, IInv, TypeOK, CallsOK, CallOK, OpenersApart, DrainingClosed, OpenHasId,
       LoadedIsOpen, Loaded, Idle, Unused, Instance, Phases, Row

LEMMA TypeStep == IInv /\ [Next]_vars => TypeOK'
<1> SUFFICES ASSUME IInv, [Next]_vars PROVE TypeOK'
  OBVIOUS
<1> USE DEF IInv, CallsOK, CallOK
<1>0. CASE UNCHANGED vars
  BY <1>0 DEF vars, TypeOK
<1>1. ASSUME NEW c \in Requests, NEW a \in Instances, NEW row \in CreateConfigs,
             CreateSession(c, a, row)
      PROVE  TypeOK'
  <2>1. row \in Row
    BY ConstantsAssumption
  <2>2. instance' \in [Instances -> Instance]
    BY <1>1, <2>1, OpenType DEF CreateSession
  <2>3. calls' \in [Requests -> Call]
    BY <1>1, <2>1 DEF CreateSession, TypeOK, Call, Idle, Ops
  <2> QED BY <1>1, <2>2, <2>3 DEF CreateSession, TypeOK
<1>2. ASSUME NEW c \in Requests, NEW id \in Ids, NEW handle \in BOOLEAN,
             CreateReturns(c, id, handle)
      PROVE  TypeOK'
  <2>1. calls[c].inst \in Instances /\ [calls[c].row EXCEPT !.handle = handle] \in Row
    BY <1>2 DEF CreateReturns, Resumes, Row
  <2>2. calls' \in [Requests -> Call]
    BY <1>2, IdleType DEF CreateReturns, Reply, TypeOK
  <2> QED BY <1>2, <2>1, <2>2, RegisterType DEF CreateReturns, TypeOK
<1>3. ASSUME NEW c \in Requests, NEW a \in Instances, NEW id \in Ids,
             NEW req \in Cwds \cup {None}, NEW dirs \in SUBSET Cwds,
             ResumeSession(c, a, id, req, dirs)
      PROVE  TypeOK'
  <2> DEFINE row == [store[id] EXCEPT !.cwd = ResolveResumeCwd(@, req, dirs)]
  <2>1. row \in Row
    BY <1>3, ResolveResumeCwdType DEF ResumeSession, TypeOK, Row
  <2>2. Open(a, id, row) /\ calls' = [calls EXCEPT ![c] = [Idle EXCEPT !.op = "resume",
                                          !.id = id, !.inst = a, !.row = row]]
    BY <1>3 DEF ResumeSession
  <2> HIDE DEF row
  <2>3. instance' \in [Instances -> Instance]
    BY <2>1, <2>2, OpenType
  <2>4. calls' \in [Requests -> Call]
    BY <2>1, <2>2 DEF TypeOK, Call, Idle, Ops
  <2> QED BY <1>3, <2>3, <2>4 DEF ResumeSession, TypeOK
<1>4. ASSUME NEW c \in Requests, ResumeReturns(c) PROVE TypeOK'
  <2>1. calls[c].inst \in Instances /\ calls[c].id \in Ids /\ calls[c].row \in Row
    BY <1>4 DEF ResumeReturns, Resumes
  <2>2. calls' \in [Requests -> Call]
    BY <1>4, IdleType DEF ResumeReturns, Reply, TypeOK
  <2> QED BY <1>4, <2>1, <2>2, RegisterType DEF ResumeReturns, TypeOK
<1>5. ASSUME NEW c \in Requests, OpenFails(c) PROVE TypeOK'
  <2>1. calls[c].inst \in Instances
    BY <1>5 DEF OpenFails, Resumes
  <2>2. instance' \in [Instances -> Instance]
    BY <1>5, <2>1, SetPhaseType DEF OpenFails, Phases
  <2> QED BY <1>5, <2>2, IdleType DEF OpenFails, Reply, TypeOK
<1>6. ASSUME NEW c \in Requests, NEW id \in Ids, Prompt(c, id) PROVE TypeOK'
  BY <1>6 DEF Prompt, TypeOK, Call, Idle, Ops
<1>7. ASSUME NEW c \in Requests, PromptSettles(c) PROVE TypeOK'
  BY <1>7, IdleType DEF PromptSettles, Reply, TypeOK
<1>8. ASSUME NEW c \in Requests, NEW id \in Ids, NEW m \in Models, SetModel(c, id, m)
      PROVE  TypeOK'
  BY <1>8 DEF SetModel, SetOption, TypeOK, Call, Idle, Ops
<1>9. ASSUME NEW c \in Requests, NEW id \in Ids, NEW l \in Levels \cup {None},
             SetThinkingOption(c, id, l)
      PROVE  TypeOK'
  BY <1>9 DEF SetThinkingOption, SetOption, TypeOK, Call, Idle, Ops
<1>10. ASSUME NEW c \in Requests, SetModelReturns(c) PROVE TypeOK'
  <2>1. calls[c].id \in Ids /\ calls[c].arg \in Models
    BY <1>10 DEF SetModelReturns, Resumes
  <2>2. store' \in [Ids -> Row \cup {None}]
    BY <1>10, <2>1 DEF SetModelReturns, TypeOK, Row
  <2> QED BY <1>10, <2>2, IdleType DEF SetModelReturns, Reply, TypeOK
<1>11. ASSUME NEW c \in Requests, SetThinkingOptionReturns(c) PROVE TypeOK'
  <2>1. calls[c].id \in Ids /\ calls[c].arg \in Levels \cup {None}
    BY <1>11 DEF SetThinkingOptionReturns, Resumes
  <2>2. store' \in [Ids -> Row \cup {None}]
    BY <1>11, <2>1 DEF SetThinkingOptionReturns, TypeOK, Row
  <2> QED BY <1>11, <2>2, IdleType DEF SetThinkingOptionReturns, Reply, TypeOK
<1>12. ASSUME NEW c \in Requests, SetOptionFails(c) PROVE TypeOK'
  BY <1>12, IdleType DEF SetOptionFails, Reply, TypeOK
<1>22. ASSUME NEW c \in Requests, SetModelApplies(c) PROVE TypeOK'
  <2>1. calls[c].inst \in Instances /\ calls[c].arg \in Models
    BY <1>22 DEF SetModelApplies, Resumes
  <2>2. instance' \in [Instances -> Instance]
    BY <1>22, <2>1 DEF SetModelApplies, TypeOK, Instance
  <2>3. calls' \in [Requests -> Call]
    BY <1>22 DEF SetModelApplies, TypeOK, Call, Ops
  <2> QED BY <1>22, <2>2, <2>3 DEF SetModelApplies, TypeOK
<1>23. ASSUME NEW c \in Requests, SetModelTimesOut(c) PROVE TypeOK'
  <2>1. calls' \in [Requests -> Call]
    BY <1>23 DEF SetModelTimesOut, TypeOK, Call, Ops
  <2> QED BY <1>23, <2>1 DEF SetModelTimesOut, TypeOK
<1>24. ASSUME NEW c \in Requests, SetModelUnanswered(c) PROVE TypeOK'
  <2>1. instance' \in [Instances -> Instance]
    <3>1. calls[c].inst \in Instances /\ instance \in [Instances -> Instance]
      BY <1>24 DEF SetModelUnanswered, Resumes, TypeOK
    <3>2. [instance[calls[c].inst] EXCEPT !.drifted = TRUE] \in Instance
      BY <3>1 DEF Instance
    <3> QED BY <1>24, <3>1, <3>2 DEF SetModelUnanswered
  <2> QED BY <1>24, <2>1, IdleType DEF SetModelUnanswered, Reply, TypeOK
<1>25. ASSUME NEW c \in Requests, LateModelChange(c) PROVE TypeOK'
  <2>1. calls[c].inst \in Instances /\ calls[c].arg \in Models
    BY <1>25 DEF LateModelChange
  <2>2. instance' \in [Instances -> Instance]
    <3>1. instance \in [Instances -> Instance] /\ instance[calls[c].inst] \in Instance
      BY <2>1 DEF TypeOK
    <3>2. [instance[calls[c].inst] EXCEPT !.model = calls[c].arg, !.drifted = TRUE] \in Instance
      BY <2>1, <3>1 DEF Instance
    <3> QED BY <1>25, <2>1, <3>1, <3>2 DEF LateModelChange
  <2> QED BY <1>25, <2>2, IdleType DEF LateModelChange, Reply, TypeOK
<1>13. ASSUME NEW a \in Instances, ThreadStarted(a) PROVE TypeOK'
  <2>1. instance[a].id \in Ids
    BY <1>13 DEF ThreadStarted, OpenHasId
  <2>2. instance' \in [Instances -> Instance]
    <3>1. instance \in [Instances -> Instance] /\ instance[a] \in Instance
      BY DEF TypeOK
    <3>2. [instance[a] EXCEPT !.handle = TRUE] \in Instance
      BY <3>1 DEF Instance
    <3>3. instance' = [instance EXCEPT ![a] = [instance[a] EXCEPT !.handle = TRUE]]
      BY <1>13, <3>1 DEF ThreadStarted
    <3> QED BY <3>1, <3>2, <3>3
  <2>3. store' \in [Ids -> Row \cup {None}]
    BY <1>13, <2>1 DEF ThreadStarted, TypeOK, Row
  <2> QED BY <1>13, <2>2, <2>3 DEF ThreadStarted, TypeOK
<1>14. ASSUME NEW c \in Requests, NEW id \in Ids, CloseSession(c, id) PROVE TypeOK'
  <2>1. sessions[id] \in Instances
    BY <1>14 DEF CloseSession, TypeOK
  <2>2. instance' \in [Instances -> Instance]
    BY <1>14, <2>1, SetPhaseType DEF CloseSession, Phases
  <2>3. calls' \in [Requests -> Call]
    BY <1>14, <2>1 DEF CloseSession, TypeOK, Call, Idle, Ops
  <2> QED BY <1>14, <2>2, <2>3 DEF CloseSession, TypeOK
<1>15. ASSUME NEW c \in Requests, CloseReturns(c) PROVE TypeOK'
  <2>1. calls[c].inst \in Instances
    BY <1>15 DEF CloseReturns, Resumes
  <2>2. instance' \in [Instances -> Instance]
    BY <1>15, <2>1, SetPhaseType DEF CloseReturns, Phases
  <2> QED BY <1>15, <2>2, IdleType DEF CloseReturns, Reply, TypeOK
<1>16. ASSUME NEW c \in Requests, NEW cwd \in Models \cup Levels \cup Cwds \cup {None},
              NEW keys \in SUBSET Ids, NEW inst \in [Instances -> Instance],
              DeleteCloses(c, cwd, keys, inst) \/ DeleteEnds(c, cwd, keys, inst)
       PROVE  TypeOK'
  <2>1. CASE DeleteEnds(c, cwd, keys, inst)
    BY <1>16, <2>1, IdleType DEF DeleteEnds, Reply, TypeOK
  <2>2. ASSUME NEW id \in keys, NEW skipped \in SUBSET keys,
               Closes(id, cwd),
               sessions' = [sessions EXCEPT ![id] = None],
               instance' = [inst EXCEPT ![sessions[id]].phase = "closing"],
               calls' = [calls EXCEPT ![c] = [Idle EXCEPT !.op = "delete", !.id = id,
                          !.inst = sessions[id], !.arg = cwd,
                          !.keys = keys \ ({id} \cup skipped)]],
               UNCHANGED <<running, store, issued, daemon, draining, displaced>>
        PROVE  TypeOK'
    <3>1. sessions[id] \in Instances
      BY <2>2 DEF Closes, TypeOK
    <3>2. instance' \in [Instances -> Instance]
      <4>1. [inst[sessions[id]] EXCEPT !.phase = "closing"] \in Instance
        BY <3>1 DEF Instance, Phases
      <4> QED BY <2>2, <3>1, <4>1
    <3>3. calls' \in [Requests -> Call]
      BY <2>2, <3>1 DEF TypeOK, Call, Idle, Ops
    <3> QED BY <2>2, <3>2, <3>3 DEF TypeOK
  <2> QED BY <1>16, <2>1, <2>2 DEF DeleteCloses
<1>17. ASSUME NEW c \in Requests, NEW cwd \in Cwds \cup {None}, DeleteProject(c, cwd)
       PROVE  TypeOK'
  BY <1>16, <1>17 DEF DeleteProject, Loaded, TypeOK
<1>18. ASSUME NEW c \in Requests, DeleteContinues(c) PROVE TypeOK'
  <2>1. calls[c].inst \in Instances
    BY <1>18 DEF DeleteContinues, Resumes
  <2>2. SetPhase(calls[c].inst, "closed") \in [Instances -> Instance]
    BY <2>1, SetPhaseType DEF Phases
  <2>3. calls[c].arg \in Models \cup Levels \cup Cwds \cup {None} /\ calls[c].keys \in SUBSET Ids
    BY DEF TypeOK, Call
  <2> QED BY <1>18, <1>16, <2>2, <2>3 DEF DeleteContinues
<1>19. CASE Shutdown
  <2>1. instance' \in [Instances -> Instance]
    BY <1>19 DEF Shutdown, TypeOK, Instance, Phases
  <2> QED BY <1>19, <2>1 DEF Shutdown, TypeOK, Loaded
<1>20. ASSUME NEW a \in Instances, ShutdownClosed(a) PROVE TypeOK'
  <2>1. instance' \in [Instances -> Instance]
    BY <1>20, SetPhaseType DEF ShutdownClosed, Phases
  <2> QED BY <1>20, <2>1 DEF ShutdownClosed, TypeOK
<1>21. CASE Exit
  BY <1>21 DEF Exit, TypeOK
<1> QED
  BY <1>0, <1>1, <1>2, <1>3, <1>4, <1>5, <1>6, <1>7, <1>8, <1>9, <1>10, <1>11, <1>12,
     <1>13, <1>14, <1>15, <1>17, <1>18, <1>19, <1>20, <1>21, <1>22, <1>23, <1>24, <1>25
     DEF Next, Request, Continue

-----------------------------------------------------------------------------
\* A request that ends frees its slot and touches no other.
LEMMA ReplyEffect ==
    ASSUME TypeOK, NEW c \in Requests, Reply(c)
    PROVE  /\ calls'[c].op = "idle"
           /\ \A d \in Requests \ {c} : calls'[d] = calls[d]
BY DEF TypeOK, Reply, Idle

\* The end of a setModel or setThinkingOption, in time or late: of the instances
\* only a model and the mark that it drifted may change.
LEMMA OptionEffect ==
    ASSUME TypeOK, NEW c \in Requests,
           \/ SetModelReturns(c) \/ SetThinkingOptionReturns(c) \/ SetOptionFails(c)
           \/ SetModelUnanswered(c) \/ LateModelChange(c)
    PROVE  \A b \in Instances : /\ instance'[b].phase = instance[b].phase
                                /\ instance'[b].id = instance[b].id
                                /\ instance'[b].handle = instance[b].handle
                                /\ instance[b].drifted => instance'[b].drifted
                                /\ instance'[b].model = instance[b].model
                                      \/ instance'[b].drifted
<1>1. CASE UNCHANGED instance
  BY <1>1
<1>2. CASE instance' = [instance EXCEPT ![calls[c].inst].drifted = TRUE]
  BY <1>2 DEF TypeOK, Instance
<1>3. CASE instance' = [instance EXCEPT ![calls[c].inst] =
                          [@ EXCEPT !.model = calls[c].arg, !.drifted = TRUE]]
  BY <1>3 DEF TypeOK, Instance
<1> QED BY <1>1, <1>2, <1>3 DEF SetModelReturns, SetThinkingOptionReturns, SetOptionFails,
           SetModelUnanswered, LateModelChange

-----------------------------------------------------------------------------
\* What no action may do to the suspended requests, the map and the draining
\* set is stated once for all of them: only the request that runs changes its
\* entry, and only its own instance leaves "opening" or "open".
LEMMA RestStep ==
    ASSUME IInv, [Next]_vars, TypeOK'
    PROVE  CallsOK' /\ OpenersApart' /\ DrainingClosed' /\ OpenHasId' /\ LoadedIsOpen'
<1> DEFINE Rest == CallsOK' /\ OpenersApart' /\ DrainingClosed' /\ OpenHasId' /\ LoadedIsOpen'
<1> USE DEF IInv, CallsOK, CallOK, OpenersApart, DrainingClosed, OpenHasId, LoadedIsOpen, Loaded
<1>0. CASE UNCHANGED vars
  BY <1>0 DEF vars
<1>1. ASSUME NEW c \in Requests, NEW a \in Instances, NEW row \in CreateConfigs,
             CreateSession(c, a, row)
      PROVE  Rest
  <2>1. row \in Row /\ row.cwd \in Cwds
    BY ConstantsAssumption
  <2>2. /\ instance'[a].phase = "opening" /\ instance[a].phase = "unused"
        /\ \A b \in Instances \ {a} : instance'[b] = instance[b]
    BY <1>1, <2>1, OpenType DEF CreateSession
  <2>3. /\ calls'[c].op = "create" /\ calls'[c].inst = a /\ calls'[c].row = row
        /\ \A d \in Requests \ {c} : calls'[d] = calls[d]
    BY <1>1 DEF CreateSession, Idle, TypeOK
  <2>4. UNCHANGED <<sessions, draining>>
    BY <1>1 DEF CreateSession
  <2>5. CallsOK' /\ OpenersApart'
    BY <2>1, <2>2, <2>3
  <2>6. DrainingClosed' /\ OpenHasId'
    BY <2>2, <2>4 DEF TypeOK
  <2>7. LoadedIsOpen'
    BY <2>2, <2>4 DEF TypeOK
  <2> QED BY <2>5, <2>6, <2>7
<1>2. ASSUME NEW c \in Requests, NEW id \in Ids, NEW handle \in BOOLEAN,
             CreateReturns(c, id, handle)
      PROVE  Rest
  <2> DEFINE a == calls[c].inst
             row == [calls[c].row EXCEPT !.handle = handle]
  <2>1. /\ calls'[c].op = "idle"
        /\ \A d \in Requests \ {c} : calls'[d] = calls[d]
    BY <1>2, ReplyEffect DEF CreateReturns
  <2>2. a \in Instances /\ instance[a].phase = "opening" /\ row \in Row /\ calls[c].op = "create"
    BY <1>2 DEF CreateReturns, Resumes, Row
  <2>3. Register(a, id, row) /\ UNCHANGED draining
    BY <1>2 DEF CreateReturns
  <2> HIDE DEF a, row
  <2>4. /\ instance'[a].phase = "open" /\ instance'[a].id = id /\ sessions'[id] = a
        /\ \A b \in Instances \ {a} : instance'[b] = instance[b]
        /\ \A i \in Ids \ {id} : sessions'[i] = sessions[i]
    BY <2>2, <2>3, RegisterType
  <2>5. CallsOK' /\ OpenersApart'
    BY <2>1, <2>2, <2>4 DEF a
  <2>6. DrainingClosed' /\ OpenHasId'
    BY <2>2, <2>3, <2>4 DEF TypeOK
  <2>7. LoadedIsOpen'
    BY <2>2, <2>4 DEF TypeOK
  <2> QED BY <2>5, <2>6, <2>7
<1>3. ASSUME NEW c \in Requests, NEW a \in Instances, NEW id \in Ids,
             NEW req \in Cwds \cup {None}, NEW dirs \in SUBSET Cwds,
             ResumeSession(c, a, id, req, dirs)
      PROVE  Rest
  <2> DEFINE row == [store[id] EXCEPT !.cwd = ResolveResumeCwd(@, req, dirs)]
  <2>1. row \in Row /\ row.cwd \in Cwds /\ row.handle
    BY <1>3, ResolveResumeCwdType DEF ResumeSession, TypeOK, Row
  <2>2. Open(a, id, row) /\ calls' = [calls EXCEPT ![c] = [Idle EXCEPT !.op = "resume",
                                          !.id = id, !.inst = a, !.row = row]]
    BY <1>3 DEF ResumeSession
  <2> HIDE DEF row
  <2>3. /\ instance'[a].phase = "opening" /\ instance[a].phase = "unused"
        /\ \A b \in Instances \ {a} : instance'[b] = instance[b]
    BY <2>1, <2>2, OpenType
  <2>4. /\ calls'[c].op = "resume" /\ calls'[c].inst = a /\ calls'[c].row = row
        /\ calls'[c].id = id
        /\ \A d \in Requests \ {c} : calls'[d] = calls[d]
    BY <2>2 DEF Idle, TypeOK
  <2>5. UNCHANGED <<sessions, draining>>
    BY <1>3 DEF ResumeSession
  <2>6. CallsOK' /\ OpenersApart'
    BY <2>1, <2>3, <2>4
  <2>7. DrainingClosed' /\ OpenHasId'
    BY <2>3, <2>5 DEF TypeOK
  <2>8. LoadedIsOpen'
    BY <2>3, <2>5 DEF TypeOK
  <2> QED BY <2>6, <2>7, <2>8
<1>4. ASSUME NEW c \in Requests, ResumeReturns(c) PROVE Rest
  <2>1. /\ calls'[c].op = "idle"
        /\ \A d \in Requests \ {c} : calls'[d] = calls[d]
    BY <1>4, ReplyEffect DEF ResumeReturns
  <2> DEFINE a == calls[c].inst
             id == calls[c].id
  <2>2. /\ a \in Instances /\ instance[a].phase = "opening" /\ id \in Ids
        /\ calls[c].row \in Row /\ calls[c].op = "resume"
    BY <1>4 DEF ResumeReturns, Resumes
  <2>3. Register(a, id, calls[c].row) /\ UNCHANGED draining
    BY <1>4 DEF ResumeReturns
  <2> HIDE DEF a, id
  <2>4. /\ instance'[a].phase = "open" /\ instance'[a].id = id /\ sessions'[id] = a
        /\ \A b \in Instances \ {a} : instance'[b] = instance[b]
        /\ \A i \in Ids \ {id} : sessions'[i] = sessions[i]
    BY <2>2, <2>3, RegisterType
  <2>5. CallsOK' /\ OpenersApart'
    BY <2>1, <2>2, <2>4 DEF a
  <2>6. DrainingClosed' /\ OpenHasId'
    BY <2>2, <2>3, <2>4 DEF TypeOK
  <2>7. LoadedIsOpen'
    BY <2>2, <2>4 DEF TypeOK
  <2> QED BY <2>5, <2>6, <2>7
<1>5. ASSUME NEW c \in Requests, OpenFails(c) PROVE Rest
  <2>1. /\ calls'[c].op = "idle"
        /\ \A d \in Requests \ {c} : calls'[d] = calls[d]
    BY <1>5, ReplyEffect DEF OpenFails
  <2> DEFINE a == calls[c].inst
  <2>2. a \in Instances /\ instance[a].phase = "opening" /\ calls[c].op \in {"create", "resume"}
    BY <1>5 DEF OpenFails, Resumes
  <2>3. PICK p \in {"closed", "leaked"} : instance' = SetPhase(a, p)
    BY <1>5 DEF OpenFails
  <2> HIDE DEF a
  <2>4. /\ instance'[a].phase = p
        /\ \A b \in Instances \ {a} : instance'[b] = instance[b]
    BY <2>2, <2>3, SetPhaseType DEF Phases
  <2>5. UNCHANGED <<sessions, draining>>
    BY <1>5 DEF OpenFails
  <2>6. CallsOK' /\ OpenersApart'
    BY <2>1, <2>2, <2>4 DEF a
  <2>7. DrainingClosed' /\ OpenHasId'
    BY <2>2, <2>4, <2>5 DEF TypeOK
  <2>8. LoadedIsOpen'
    BY <2>2, <2>4, <2>5 DEF TypeOK
  <2> QED BY <2>6, <2>7, <2>8
<1>6. ASSUME NEW c \in Requests, NEW id \in Ids, Prompt(c, id)
      PROVE  Rest
  <2>1. /\ calls'[c].op = "prompt" /\ calls'[c].id = id /\ calls'[c].inst = sessions[id]
        /\ \A d \in Requests \ {c} : calls'[d] = calls[d]
    BY <1>6 DEF Prompt, Idle, TypeOK
  <2>2. UNCHANGED <<sessions, instance, draining>> /\ sessions[id] \in Instances
    BY <1>6 DEF Prompt, TypeOK
  <2> QED BY <2>1, <2>2
<1>7. ASSUME NEW c \in Requests, PromptSettles(c) PROVE Rest
  <2>1. /\ calls'[c].op = "idle"
        /\ \A d \in Requests \ {c} : calls'[d] = calls[d]
    BY <1>7, ReplyEffect DEF PromptSettles
  <2>2. UNCHANGED <<sessions, instance, draining>>
    BY <1>7 DEF PromptSettles
  <2> QED BY <2>1, <2>2
<1>8. ASSUME NEW c \in Requests, NEW id \in Ids, NEW m \in Models,
             SetModel(c, id, m)
      PROVE  Rest
  <2>1. /\ calls'[c].op = "setModel" /\ calls'[c].id = id
        /\ calls'[c].inst = sessions[id] /\ calls'[c].arg = m
        /\ \A d \in Requests \ {c} : calls'[d] = calls[d]
    BY <1>8 DEF SetModel, SetOption, Idle, TypeOK
  <2>2. UNCHANGED <<sessions, instance, draining>> /\ sessions[id] \in Instances
    BY <1>8 DEF SetModel, SetOption, TypeOK
  <2> QED BY <2>1, <2>2
<1>9. ASSUME NEW c \in Requests, NEW id \in Ids, NEW l \in Levels \cup {None},
             SetThinkingOption(c, id, l)
      PROVE  Rest
  <2>1. /\ calls'[c].op = "setLevel" /\ calls'[c].id = id
        /\ calls'[c].inst = sessions[id] /\ calls'[c].arg = l
        /\ \A d \in Requests \ {c} : calls'[d] = calls[d]
    BY <1>9 DEF SetThinkingOption, SetOption, Idle, TypeOK
  <2>2. UNCHANGED <<sessions, instance, draining>> /\ sessions[id] \in Instances
    BY <1>9 DEF SetThinkingOption, SetOption, TypeOK
  <2> QED BY <2>1, <2>2
<1>10. ASSUME NEW c \in Requests,
              \/ SetModelReturns(c)
              \/ SetThinkingOptionReturns(c)
              \/ SetOptionFails(c)
              \/ SetModelUnanswered(c)
              \/ LateModelChange(c)
       PROVE  Rest
  <2>1. /\ calls'[c].op = "idle"
        /\ \A d \in Requests \ {c} : calls'[d] = calls[d]
    BY <1>10, ReplyEffect DEF SetModelReturns, SetThinkingOptionReturns, SetOptionFails,
       SetModelUnanswered, LateModelChange
  <2>2. UNCHANGED <<sessions, draining>>
    BY <1>10 DEF SetModelReturns, SetThinkingOptionReturns, SetOptionFails,
       SetModelUnanswered, LateModelChange
  <2>3. \A b \in Instances : /\ instance'[b].phase = instance[b].phase
                            /\ instance'[b].id = instance[b].id
    BY <1>10, OptionEffect
  <2> QED BY <2>1, <2>2, <2>3 DEF TypeOK
<1>11. ASSUME NEW c \in Requests, SetModelApplies(c) PROVE Rest
  <2>1. /\ calls[c].op = "setModel" /\ calls'[c] = [calls[c] EXCEPT !.op = "modelSet"]
        /\ \A d \in Requests \ {c} : calls'[d] = calls[d]
    BY <1>11 DEF SetModelApplies, Resumes, TypeOK
  <2>2. calls'[c].op = "modelSet" /\ calls'[c].inst = calls[c].inst
        /\ calls'[c].id = calls[c].id /\ calls'[c].arg = calls[c].arg
    BY <2>1 DEF TypeOK, Call
  <2>3. UNCHANGED <<sessions, draining>>
    BY <1>11 DEF SetModelApplies
  <2>4. \A b \in Instances : /\ instance'[b].phase = instance[b].phase
                            /\ instance'[b].id = instance[b].id
    BY <1>11 DEF SetModelApplies, TypeOK, Instance
  <2>5. CallsOK' /\ OpenersApart'
    <3>1. ASSUME NEW d \in Requests PROVE CallOK(d)'
      <4>1. CASE d = c
        BY <2>1, <2>2, <2>4, <4>1
      <4>2. CASE d # c
        BY <2>1, <2>2, <2>4, <4>2
      <4> QED BY <4>1, <4>2
    <3>2. ASSUME NEW d \in Requests, NEW e \in Requests,
                 calls'[d].op \in {"create", "resume"}, calls'[e].op \in {"create", "resume"},
                 calls'[d].inst = calls'[e].inst
          PROVE  d = e
      <4>1. d # c /\ e # c
        BY <2>2, <3>2
      <4> QED BY <2>1, <3>2, <4>1
    <3> QED BY <3>1, <3>2
  <2>6. DrainingClosed' /\ OpenHasId' /\ LoadedIsOpen'
    BY <2>3, <2>4 DEF TypeOK
  <2> QED BY <2>5, <2>6
<1>12. ASSUME NEW c \in Requests, SetModelTimesOut(c) PROVE Rest
  <2>1. /\ calls[c].op = "setModel" /\ calls'[c] = [calls[c] EXCEPT !.op = "late"]
        /\ \A d \in Requests \ {c} : calls'[d] = calls[d]
    BY <1>12 DEF SetModelTimesOut, Resumes, TypeOK
  <2>2. calls'[c].op = "late" /\ calls'[c].inst = calls[c].inst
        /\ calls'[c].id = calls[c].id /\ calls'[c].arg = calls[c].arg
    BY <2>1 DEF TypeOK, Call
  <2>3. UNCHANGED <<sessions, instance, draining>>
    BY <1>12 DEF SetModelTimesOut
  <2>4. CallsOK' /\ OpenersApart'
    <3>1. ASSUME NEW d \in Requests PROVE CallOK(d)'
      <4>1. CASE d = c
        BY <2>1, <2>2, <2>3, <4>1
      <4>2. CASE d # c
        BY <2>1, <2>2, <2>3, <4>2
      <4> QED BY <4>1, <4>2
    <3>2. ASSUME NEW d \in Requests, NEW e \in Requests,
                 calls'[d].op \in {"create", "resume"}, calls'[e].op \in {"create", "resume"},
                 calls'[d].inst = calls'[e].inst
          PROVE  d = e
      <4>1. d # c /\ e # c
        BY <2>2, <3>2
      <4> QED BY <2>1, <3>2, <4>1
    <3> QED BY <3>1, <3>2
  <2>5. DrainingClosed' /\ OpenHasId' /\ LoadedIsOpen'
    BY <2>3
  <2> QED BY <2>4, <2>5
<1>13. ASSUME NEW a \in Instances, ThreadStarted(a) PROVE Rest
  <2>1. \A b \in Instances : /\ instance'[b].phase = instance[b].phase
                            /\ instance'[b].id = instance[b].id
    BY <1>13 DEF ThreadStarted, TypeOK, Instance
  <2>2. UNCHANGED <<sessions, calls, draining>>
    BY <1>13 DEF ThreadStarted
  <2> QED BY <2>1, <2>2 DEF TypeOK
<1>14. ASSUME NEW c \in Requests, NEW id \in Ids, CloseSession(c, id) PROVE Rest
  <2> DEFINE a == sessions[id]
  <2>1. a \in Instances /\ instance[a].phase = "open" /\ instance[a].id = id
    BY <1>14 DEF CloseSession, TypeOK
  <2>2. /\ calls'[c].op = "close" /\ calls'[c].id = id /\ calls'[c].inst = a
        /\ \A d \in Requests \ {c} : calls'[d] = calls[d]
    BY <1>14 DEF CloseSession, Idle, TypeOK
  <2>3. /\ sessions'[id] = None /\ UNCHANGED draining
        /\ \A i \in Ids \ {id} : sessions'[i] = sessions[i]
    BY <1>14 DEF CloseSession, TypeOK
  <2>4. instance' = SetPhase(a, "closing")
    BY <1>14 DEF CloseSession
  <2> HIDE DEF a
  <2>5. /\ instance'[a].phase = "closing"
        /\ \A b \in Instances \ {a} : instance'[b] = instance[b]
    BY <2>1, <2>4, SetPhaseType DEF Phases
  <2>6. CallsOK' /\ OpenersApart'
    BY <2>1, <2>2, <2>5
  <2>7. DrainingClosed' /\ OpenHasId'
    BY <2>1, <2>3, <2>5 DEF TypeOK
  <2>8. LoadedIsOpen'
    BY <2>1, <2>3, <2>5 DEF TypeOK, a
  <2> QED BY <2>6, <2>7, <2>8
<1>15. ASSUME NEW c \in Requests, CloseReturns(c) PROVE Rest
  <2>1. /\ calls'[c].op = "idle"
        /\ \A d \in Requests \ {c} : calls'[d] = calls[d]
    BY <1>15, ReplyEffect DEF CloseReturns
  <2> DEFINE a == calls[c].inst
  <2>2. a \in Instances /\ instance[a].phase \in {"closing", "closed"}
    BY <1>15 DEF CloseReturns, Resumes
  <2>3. instance' = SetPhase(a, "closed") /\ UNCHANGED <<sessions, draining>>
    BY <1>15 DEF CloseReturns
  <2> HIDE DEF a
  <2>4. /\ instance'[a].phase = "closed"
        /\ \A b \in Instances \ {a} : instance'[b] = instance[b]
    BY <2>2, <2>3, SetPhaseType DEF Phases
  <2>5. CallsOK' /\ OpenersApart'
    <3>1. ASSUME NEW d \in Requests PROVE CallOK(d)'
      <4>1. CASE d = c
        BY <2>1, <2>2, <2>4, <4>1
      <4>2. CASE d # c
        BY <2>1, <2>2, <2>4, <4>2
      <4> QED BY <4>1, <4>2
    <3>2. ASSUME NEW d \in Requests, NEW e \in Requests,
                 calls'[d].op \in {"create", "resume"}, calls'[e].op \in {"create", "resume"},
                 calls'[d].inst = calls'[e].inst
          PROVE  d = e
      <4>1. d # c /\ e # c
        BY <2>1, <3>2
      <4> QED BY <2>1, <3>2, <4>1
    <3> QED BY <3>1, <3>2
  <2>6. DrainingClosed' /\ OpenHasId'
    BY <2>3, <2>4 DEF TypeOK
  <2>7. LoadedIsOpen'
    BY <2>2, <2>3, <2>4 DEF TypeOK
  <2> QED BY <2>5, <2>6, <2>7
\* A segment of the loop, from instances that differ from the current ones at
\* most in that the session closed last has become "closed".
<1>16. ASSUME NEW c \in Requests, NEW cwd, NEW keys \in SUBSET Ids,
              NEW inst \in [Instances -> Instance],
              \A b \in Instances : \/ inst[b] = instance[b]
                                   \/ /\ instance[b].phase \in {"closing", "closed"}
                                      /\ inst[b].phase = "closed",
              calls[c].op \in {"idle", "delete"},
              DeleteCloses(c, cwd, keys, inst) \/ DeleteEnds(c, cwd, keys, inst)
       PROVE  Rest
  <2>1. CASE DeleteEnds(c, cwd, keys, inst)
    <3>1. /\ calls'[c].op = "idle"
          /\ \A d \in Requests \ {c} : calls'[d] = calls[d]
      BY <2>1, ReplyEffect DEF DeleteEnds
    <3>2. instance' = inst /\ UNCHANGED <<sessions, draining>>
      BY <2>1 DEF DeleteEnds
    <3>3. CallsOK' /\ OpenersApart'
      BY <1>16, <3>1, <3>2
    <3>4. DrainingClosed' /\ OpenHasId'
      BY <1>16, <3>2 DEF TypeOK
    <3>5. LoadedIsOpen'
      BY <1>16, <3>2 DEF TypeOK
    <3> QED BY <3>3, <3>4, <3>5
  <2>2. CASE DeleteCloses(c, cwd, keys, inst)
    <3>1. PICK id \in keys, skipped \in SUBSET keys :
            /\ Closes(id, cwd)
            /\ sessions' = [sessions EXCEPT ![id] = None]
            /\ instance' = [inst EXCEPT ![sessions[id]].phase = "closing"]
            /\ calls' = [calls EXCEPT ![c] = [Idle EXCEPT !.op = "delete", !.id = id,
                          !.inst = sessions[id], !.arg = cwd,
                          !.keys = keys \ ({id} \cup skipped)]]
            /\ UNCHANGED draining
      BY <2>2 DEF DeleteCloses
    <3> DEFINE a == sessions[id]
    <3>2. id \in Ids /\ a \in Instances /\ instance[a].phase = "open" /\ instance[a].id = id
      BY <3>1 DEF Closes, TypeOK
    <3>3. /\ calls'[c].op = "delete" /\ calls'[c].id = id /\ calls'[c].inst = a
          /\ \A d \in Requests \ {c} : calls'[d] = calls[d]
      BY <3>1 DEF Idle, TypeOK
    <3>4. /\ sessions'[id] = None /\ UNCHANGED draining
          /\ \A i \in Ids \ {id} : sessions'[i] = sessions[i]
      BY <3>1 DEF TypeOK
    <3>5. instance' = [inst EXCEPT ![a].phase = "closing"]
      BY <3>1
    <3> HIDE DEF a
    <3>6. /\ instance'[a].phase = "closing"
          /\ \A b \in Instances \ {a} : instance'[b] = inst[b]
      BY <3>2, <3>5 DEF Instance
    <3>7. CallsOK' /\ OpenersApart'
      BY <1>16, <3>2, <3>3, <3>6
    <3>8. DrainingClosed' /\ OpenHasId'
      BY <1>16, <3>2, <3>4, <3>6 DEF TypeOK
    <3>9. LoadedIsOpen'
      BY <1>16, <3>2, <3>4, <3>6 DEF TypeOK, a
    <3> QED BY <3>7, <3>8, <3>9
  <2> QED BY <1>16, <2>1, <2>2
<1>17. ASSUME NEW c \in Requests, NEW cwd \in Cwds \cup {None}, DeleteProject(c, cwd)
       PROVE  Rest
  <2>1. instance \in [Instances -> Instance] /\ Loaded \in SUBSET Ids /\ calls[c].op = "idle"
    BY <1>17 DEF TypeOK, DeleteProject, CanStart
  <2> HIDE DEF IInv, Loaded
  <2> QED BY <1>16, <1>17, <2>1 DEF DeleteProject
<1>18. ASSUME NEW c \in Requests, DeleteContinues(c) PROVE Rest
  <2> DEFINE inst == SetPhase(calls[c].inst, "closed")
  <2>1. /\ calls[c].inst \in Instances /\ calls[c].op = "delete"
        /\ instance[calls[c].inst].phase \in {"closing", "closed"}
    BY <1>18 DEF DeleteContinues, Resumes
  <2>2. /\ inst \in [Instances -> Instance]
        /\ \A b \in Instances : \/ inst[b] = instance[b]
                                \/ /\ instance[b].phase \in {"closing", "closed"}
                                   /\ inst[b].phase = "closed"
    BY <2>1, SetPhaseType DEF Phases
  <2>3. calls[c].keys \in SUBSET Ids
    BY DEF TypeOK, Call
  <2>4. \/ DeleteCloses(c, calls[c].arg, calls[c].keys, inst)
        \/ DeleteEnds(c, calls[c].arg, calls[c].keys, inst)
    BY <1>18 DEF DeleteContinues
  <2> HIDE DEF inst, IInv
  <2> QED BY <1>16, <2>1, <2>2, <2>3, <2>4
<1>19. CASE Shutdown
  <2>1. \A b \in Instances :
           /\ (\E i \in Ids : sessions[i] = b) => instance'[b].phase = "closing"
           /\ (\A i \in Ids : sessions[i] # b) => instance'[b] = instance[b]
    BY <1>19, ConstantsAssumption DEF Shutdown, TypeOK, Instance
  <2>2. /\ draining' = {sessions[i] : i \in Loaded}
        /\ \A i \in Ids : sessions'[i] = None
        /\ UNCHANGED calls
    BY <1>19 DEF Shutdown
  <2>3. \A b \in Instances : \/ instance'[b] = instance[b]
                             \/ instance[b].phase = "open" /\ instance'[b].phase = "closing"
    <3> TAKE b \in Instances
    <3>1. ASSUME NEW i \in Ids, sessions[i] = b
          PROVE  instance[b].phase = "open"
      BY <3>1, ConstantsAssumption
    <3> HIDE DEF IInv
    <3> QED BY <2>1, <3>1
  <2>7. CallsOK' /\ OpenersApart'
    BY <2>2, <2>3
  <2>4. DrainingClosed'
    BY <2>1, <2>2 DEF TypeOK
  <2>5. OpenHasId'
    BY <2>1
  <2>6. LoadedIsOpen'
    BY <2>2
  <2> QED BY <2>4, <2>5, <2>6, <2>7
<1>20. ASSUME NEW a \in Instances, ShutdownClosed(a) PROVE Rest
  <2>1. instance[a].phase \in {"closing", "closed"}
    BY <1>20 DEF ShutdownClosed
  <2>2. /\ instance'[a].phase = "closed"
        /\ \A b \in Instances \ {a} : instance'[b] = instance[b]
    BY <1>20, SetPhaseType DEF ShutdownClosed, Phases
  <2>3. UNCHANGED <<sessions, calls>> /\ draining' \subseteq draining
    BY <1>20 DEF ShutdownClosed
  <2> QED BY <2>1, <2>2, <2>3 DEF TypeOK
<1>21. CASE Exit
  BY <1>21 DEF Exit
<1> HIDE DEF IInv, CallsOK, CallOK, OpenersApart, DrainingClosed, OpenHasId, LoadedIsOpen, Loaded
<1> QED
  BY <1>0, <1>1, <1>2, <1>3, <1>4, <1>5, <1>6, <1>7, <1>8, <1>9, <1>10, <1>11, <1>12,
     <1>13, <1>14, <1>15, <1>17, <1>18, <1>19, <1>20, <1>21
     DEF Next, Request, Continue

\* IInv is inductive.
THEOREM IInvInvariant == Spec => []IInv
<1>1. IInv /\ [Next]_vars => IInv'
  BY TypeStep, RestStep DEF IInv
<1> QED BY InitIInv, <1>1, PTL DEF Spec

\* The type invariant.
THEOREM TypeCorrect == Spec => []TypeOK
BY IInvInvariant, PTL DEF IInv

\* LoadedIsOpen, whatever requests overlap.
THEOREM LoadedIsOpenAlways == Spec => []LoadedIsOpen
BY IInvInvariant, PTL DEF IInv

-----------------------------------------------------------------------------
\* Only three actions touch the running set or a prompt's slot: Prompt takes an
\* id that is not running, PromptSettles gives back the id of the slot it
\* frees, and every other request starts from or returns to a slot that holds
\* no prompt.
LEMMA OtherSlots ==
    ASSUME TypeOK, NEW c \in Requests, SingleTurn,
           running' = running,
           calls[c].op # "prompt", calls'[c].op # "prompt",
           \A d \in Requests \ {c} : calls'[d] = calls[d]
    PROVE  SingleTurn'
BY DEF SingleTurn

LEMMA SingleTurnStep == IInv /\ SingleTurn /\ [Next]_vars => SingleTurn'
<1> SUFFICES ASSUME IInv, SingleTurn, [Next]_vars PROVE SingleTurn'
  OBVIOUS
<1> TypeOK
  BY DEF IInv
<1>0. CASE UNCHANGED <<running, calls>>
  BY <1>0 DEF SingleTurn
<1>1. ASSUME NEW c \in Requests, NEW id \in Ids, Prompt(c, id) PROVE SingleTurn'
  <2>1. /\ calls[c].op = "idle" /\ calls'[c].op = "prompt" /\ calls'[c].id = id
        /\ \A d \in Requests \ {c} : calls'[d] = calls[d]
    BY <1>1 DEF Prompt, CanStart, Idle, TypeOK
  <2>2. id \notin running /\ running' = running \cup {id}
    BY <1>1 DEF Prompt
  <2> QED BY <2>1, <2>2 DEF SingleTurn
<1>2. ASSUME NEW c \in Requests, PromptSettles(c) PROVE SingleTurn'
  <2>1. /\ calls[c].op = "prompt" /\ calls'[c].op = "idle"
        /\ \A d \in Requests \ {c} : calls'[d] = calls[d]
    BY <1>2, ReplyEffect DEF PromptSettles, Resumes
  <2>2. running' = running \ {calls[c].id}
    BY <1>2 DEF PromptSettles
  <2> QED BY <2>1, <2>2 DEF SingleTurn
<1>3. ASSUME NEW c \in Requests, ResumeReturns(c) PROVE SingleTurn'
  <2>1. calls[c].op # "prompt" /\ running' = running /\ Reply(c)
    BY <1>3 DEF ResumeReturns, Resumes
  <2> QED BY <2>1, ReplyEffect, OtherSlots
<1>4. ASSUME NEW c \in Requests, OpenFails(c) PROVE SingleTurn'
  <2>1. calls[c].op # "prompt" /\ running' = running /\ Reply(c)
    BY <1>4 DEF OpenFails, Resumes
  <2> QED BY <2>1, ReplyEffect, OtherSlots
<1>5. ASSUME NEW c \in Requests,
             \/ SetModelReturns(c) \/ SetThinkingOptionReturns(c) \/ SetOptionFails(c)
             \/ SetModelUnanswered(c) \/ LateModelChange(c)
      PROVE  SingleTurn'
  <2>1. calls[c].op # "prompt" /\ running' = running /\ Reply(c)
    BY <1>5 DEF SetModelReturns, SetThinkingOptionReturns, SetOptionFails,
       SetModelUnanswered, LateModelChange, Resumes
  <2> QED BY <2>1, ReplyEffect, OtherSlots
<1>6. ASSUME NEW c \in Requests, SetModelApplies(c) \/ SetModelTimesOut(c) PROVE SingleTurn'
  <2>1. /\ calls[c].op # "prompt" /\ calls'[c].op # "prompt" /\ running' = running
        /\ \A d \in Requests \ {c} : calls'[d] = calls[d]
    BY <1>6 DEF SetModelApplies, SetModelTimesOut, Resumes, TypeOK, Call
  <2> QED BY <2>1, OtherSlots
<1>8. ASSUME NEW c \in Requests, CloseReturns(c) PROVE SingleTurn'
  <2>1. calls[c].op # "prompt" /\ running' = running /\ Reply(c)
    BY <1>8 DEF CloseReturns, Resumes
  <2> QED BY <2>1, ReplyEffect, OtherSlots
<1>9. ASSUME NEW c \in Requests, NEW id \in Ids, NEW handle \in BOOLEAN,
             CreateReturns(c, id, handle)
      PROVE  SingleTurn'
  <2>1. calls[c].op # "prompt" /\ running' = running /\ Reply(c)
    BY <1>9 DEF CreateReturns, Resumes
  <2> QED BY <2>1, ReplyEffect, OtherSlots
<1>10. ASSUME NEW c \in Requests, NEW a \in Instances, NEW row \in CreateConfigs,
              CreateSession(c, a, row)
       PROVE  SingleTurn'
  <2>1. /\ calls[c].op # "prompt" /\ calls'[c].op # "prompt" /\ running' = running
        /\ \A d \in Requests \ {c} : calls'[d] = calls[d]
    BY <1>10 DEF CreateSession, CanStart, Idle, TypeOK
  <2> QED BY <2>1, OtherSlots
<1>11. ASSUME NEW c \in Requests, NEW a \in Instances, NEW id \in Ids,
              NEW req \in Cwds \cup {None}, NEW dirs \in SUBSET Cwds,
              ResumeSession(c, a, id, req, dirs)
       PROVE  SingleTurn'
  <2>1. /\ calls[c].op # "prompt" /\ calls'[c].op # "prompt" /\ running' = running
        /\ \A d \in Requests \ {c} : calls'[d] = calls[d]
    BY <1>11 DEF ResumeSession, CanStart, Idle, TypeOK
  <2> QED BY <2>1, OtherSlots
<1>12. ASSUME NEW c \in Requests, NEW id \in Ids, NEW m \in Models,
              SetModel(c, id, m)
       PROVE  SingleTurn'
  <2>1. /\ calls[c].op # "prompt" /\ calls'[c].op # "prompt" /\ running' = running
        /\ \A d \in Requests \ {c} : calls'[d] = calls[d]
    BY <1>12 DEF SetModel, SetOption, CanStart, Idle, TypeOK
  <2> QED BY <2>1, OtherSlots
<1>13. ASSUME NEW c \in Requests, NEW id \in Ids, NEW l \in Levels \cup {None},
              SetThinkingOption(c, id, l)
       PROVE  SingleTurn'
  <2>1. /\ calls[c].op # "prompt" /\ calls'[c].op # "prompt" /\ running' = running
        /\ \A d \in Requests \ {c} : calls'[d] = calls[d]
    BY <1>13 DEF SetThinkingOption, SetOption, CanStart, Idle, TypeOK
  <2> QED BY <2>1, OtherSlots
<1>14. ASSUME NEW c \in Requests, NEW id \in Ids,
              CloseSession(c, id)
       PROVE  SingleTurn'
  <2>1. /\ calls[c].op # "prompt" /\ calls'[c].op # "prompt" /\ running' = running
        /\ \A d \in Requests \ {c} : calls'[d] = calls[d]
    BY <1>14 DEF CloseSession, CanStart, Idle, TypeOK
  <2> QED BY <2>1, OtherSlots
<1>15. ASSUME NEW c \in Requests, NEW cwd, NEW keys, NEW inst,
              calls[c].op # "prompt",
              DeleteCloses(c, cwd, keys, inst) \/ DeleteEnds(c, cwd, keys, inst)
       PROVE  SingleTurn'
  <2>1. CASE DeleteEnds(c, cwd, keys, inst)
    BY <1>15, <2>1, ReplyEffect, OtherSlots DEF DeleteEnds
  <2>2. CASE DeleteCloses(c, cwd, keys, inst)
    <3>1. /\ calls'[c].op # "prompt" /\ running' = running
          /\ \A d \in Requests \ {c} : calls'[d] = calls[d]
      BY <2>2 DEF DeleteCloses, Idle, TypeOK
    <3> QED BY <1>15, <3>1, OtherSlots
  <2> QED BY <1>15, <2>1, <2>2
<1>16. ASSUME NEW c \in Requests, NEW cwd, DeleteProject(c, cwd) PROVE SingleTurn'
  BY <1>16, <1>15 DEF DeleteProject, CanStart
<1>17. ASSUME NEW c \in Requests, DeleteContinues(c) PROVE SingleTurn'
  BY <1>17, <1>15 DEF DeleteContinues, Resumes
<1>18. CASE \/ \E a \in Instances : ThreadStarted(a) \/ ShutdownClosed(a)
           \/ Shutdown
           \/ Exit
  BY <1>18, <1>0 DEF ThreadStarted, ShutdownClosed, Shutdown, Exit
<1> QED
  BY <1>0, <1>1, <1>2, <1>3, <1>4, <1>5, <1>6, <1>8, <1>9, <1>10, <1>11, <1>12, <1>13, <1>14,
     <1>16, <1>17, <1>18
     DEF Next, Request, Continue, vars

\* SingleTurn, whatever requests overlap.
THEOREM SingleTurnAlways == Spec => []SingleTurn
<1>1. Init => SingleTurn
  BY DEF Init, SingleTurn, Idle
<1> QED BY <1>1, SingleTurnStep, IInvInvariant, PTL DEF Spec

-----------------------------------------------------------------------------
\* A step that loads nothing, writes no row except to remove it and reports no
\* handle keeps what the rows say of the loaded sessions.
LEMMA RowsKept ==
    ASSUME TypeOK, HandlePersisted, LoadedRowHasCwd,
           \A id \in Ids : sessions'[id] \in {sessions[id], None},
           \A id \in Ids : store'[id] \in {store[id], None},
           \A a \in Instances : instance'[a].handle = instance[a].handle
    PROVE  HandlePersisted' /\ LoadedRowHasCwd'
BY DEF TypeOK, HandlePersisted, LoadedRowHasCwd, Loaded

\* register() leaves the row and the instance agreeing on the handle.
LEMMA RowsRegistered ==
    ASSUME IInv, HandlePersisted, LoadedRowHasCwd,
           NEW a \in Instances, NEW id \in Ids, NEW row \in Row, row.cwd \in Cwds,
           instance[a].phase = "opening",
           Register(a, id, row)
    PROVE  HandlePersisted' /\ LoadedRowHasCwd'
<1>1. TypeOK /\ LoadedIsOpen
  BY DEF IInv
<1>2. /\ instance'[a].handle = row.handle /\ sessions'[id] = a /\ store'[id] = row
      /\ \A b \in Instances \ {a} : instance'[b] = instance[b]
      /\ \A i \in Ids \ {id} : sessions'[i] = sessions[i] /\ store'[i] = store[i]
  BY <1>1, RegisterType
<1>3. \A i \in Ids : sessions[i] # a
  BY <1>1, ConstantsAssumption DEF LoadedIsOpen, Loaded
<1> QED
  BY <1>1, <1>2, <1>3, ConstantsAssumption DEF HandlePersisted, LoadedRowHasCwd, Loaded, TypeOK

LEMMA RowsStep ==
    IInv /\ HandlePersisted /\ LoadedRowHasCwd /\ [Next]_vars
        => HandlePersisted' /\ LoadedRowHasCwd'
<1> SUFFICES ASSUME IInv, HandlePersisted, LoadedRowHasCwd, [Next]_vars
             PROVE  HandlePersisted' /\ LoadedRowHasCwd'
  OBVIOUS
<1> DEFINE Kept == HandlePersisted' /\ LoadedRowHasCwd'
<1> TypeOK /\ CallsOK /\ LoadedIsOpen /\ OpenHasId
  BY DEF IInv
<1>0. CASE UNCHANGED <<sessions, store, instance>>
  BY <1>0, RowsKept
<1>1. ASSUME NEW c \in Requests, NEW a \in Instances, NEW row \in CreateConfigs,
             CreateSession(c, a, row)
      PROVE  Kept
  <2>1. instance[a].phase = "unused" /\ \A b \in Instances \ {a} : instance'[b] = instance[b]
    BY <1>1, OpenType, ConstantsAssumption DEF CreateSession
  <2>2. UNCHANGED <<sessions, store>>
    BY <1>1 DEF CreateSession
  <2> QED BY <2>1, <2>2 DEF HandlePersisted, LoadedRowHasCwd, LoadedIsOpen, Loaded, TypeOK
<1>2. ASSUME NEW c \in Requests, NEW id \in Ids, NEW handle \in BOOLEAN,
             CreateReturns(c, id, handle)
      PROVE  Kept
  <2> DEFINE row == [calls[c].row EXCEPT !.handle = handle]
  <2>1. /\ calls[c].inst \in Instances /\ instance[calls[c].inst].phase = "opening"
        /\ row \in Row /\ row.cwd \in Cwds
    BY <1>2 DEF CreateReturns, Resumes, Row, CallsOK, CallOK
  <2>2. Register(calls[c].inst, id, row)
    BY <1>2 DEF CreateReturns
  <2> HIDE DEF row
  <2> QED BY <2>1, <2>2, RowsRegistered
<1>3. ASSUME NEW c \in Requests, NEW a \in Instances, NEW id \in Ids,
             NEW req \in Cwds \cup {None}, NEW dirs \in SUBSET Cwds,
             ResumeSession(c, a, id, req, dirs)
      PROVE  Kept
  <2> DEFINE row == [store[id] EXCEPT !.cwd = ResolveResumeCwd(@, req, dirs)]
  <2>1. row \in Row /\ Open(a, id, row)
    BY <1>3, ResolveResumeCwdType DEF ResumeSession, TypeOK, Row
  <2> HIDE DEF row
  <2>2. instance[a].phase = "unused" /\ \A b \in Instances \ {a} : instance'[b] = instance[b]
    BY <2>1, OpenType
  <2>3. UNCHANGED <<sessions, store>>
    BY <1>3 DEF ResumeSession
  <2> QED BY <2>2, <2>3 DEF HandlePersisted, LoadedRowHasCwd, LoadedIsOpen, Loaded, TypeOK
<1>4. ASSUME NEW c \in Requests, ResumeReturns(c) PROVE Kept
  <2>1. /\ calls[c].inst \in Instances /\ instance[calls[c].inst].phase = "opening"
        /\ calls[c].id \in Ids /\ calls[c].row \in Row /\ calls[c].row.cwd \in Cwds
    BY <1>4 DEF ResumeReturns, Resumes, CallsOK, CallOK
  <2> QED BY <1>4, <2>1, RowsRegistered DEF ResumeReturns
<1>5. ASSUME NEW c \in Requests, OpenFails(c) PROVE Kept
  <2>1. calls[c].inst \in Instances
    BY <1>5 DEF OpenFails, Resumes, CallsOK, CallOK
  <2> QED BY <1>5, <2>1, SetPhaseType, RowsKept DEF OpenFails, Phases
<1>6. ASSUME NEW c \in Requests, SetModelReturns(c) PROVE Kept
  <2>1. calls[c].inst \in Instances /\ calls[c].id \in Ids
    BY <1>6 DEF SetModelReturns, Resumes, CallsOK, CallOK
  <2>2. \A a \in Instances : instance'[a].handle = instance[a].handle
    BY <1>6 DEF SetModelReturns
  <2>3. \A i \in Ids : /\ store'[i] = None <=> store[i] = None
                       /\ store[i] # None => /\ store'[i].cwd = store[i].cwd
                                             /\ store'[i].handle = store[i].handle
    <3>1. /\ store'[calls[c].id] = store[calls[c].id]
             \/ /\ store[calls[c].id] # None
                /\ store'[calls[c].id] = [store[calls[c].id] EXCEPT !.model = calls[c].arg]
          /\ \A i \in Ids \ {calls[c].id} : store'[i] = store[i]
      BY <1>6, <2>1 DEF SetModelReturns, TypeOK
    <3>2. calls[c].arg \in Models \cup {None}
      BY <1>6 DEF SetModelReturns, Resumes, CallsOK, CallOK
    <3> QED BY <2>1, <3>1, <3>2, ConstantsAssumption DEF TypeOK, Row
  <2>4. sessions' = sessions
    BY <1>6 DEF SetModelReturns
  <2> QED BY <2>2, <2>3, <2>4 DEF HandlePersisted, LoadedRowHasCwd, Loaded, TypeOK
<1>7. ASSUME NEW c \in Requests, SetThinkingOptionReturns(c) PROVE Kept
  <2>1. calls[c].inst \in Instances /\ calls[c].id \in Ids
    BY <1>7 DEF SetThinkingOptionReturns, Resumes, CallsOK, CallOK
  <2>2. \A a \in Instances : instance'[a].handle = instance[a].handle
    BY <1>7 DEF SetThinkingOptionReturns
  <2>3. \A i \in Ids : /\ store'[i] = None <=> store[i] = None
                       /\ store[i] # None => /\ store'[i].cwd = store[i].cwd
                                             /\ store'[i].handle = store[i].handle
    <3>1. /\ store'[calls[c].id] = store[calls[c].id]
             \/ /\ store[calls[c].id] # None
                /\ store'[calls[c].id] = [store[calls[c].id] EXCEPT !.level = calls[c].arg]
          /\ \A i \in Ids \ {calls[c].id} : store'[i] = store[i]
      BY <1>7, <2>1 DEF SetThinkingOptionReturns, TypeOK
    <3>2. calls[c].arg \in Levels \cup {None}
      BY <1>7 DEF SetThinkingOptionReturns, Resumes, CallsOK, CallOK
    <3> QED BY <2>1, <3>1, <3>2, ConstantsAssumption DEF TypeOK, Row
  <2>4. sessions' = sessions
    BY <1>7 DEF SetThinkingOptionReturns
  <2> QED BY <2>2, <2>3, <2>4 DEF HandlePersisted, LoadedRowHasCwd, Loaded, TypeOK
<1>8. ASSUME NEW a \in Instances, ThreadStarted(a) PROVE Kept
  <2> DEFINE id == instance[a].id
  <2>1. id \in Ids /\ \A i \in Ids : sessions[i] = a => i = id
    BY <1>8, ConstantsAssumption DEF ThreadStarted, OpenHasId, LoadedIsOpen, Loaded
  <2>2. \A b \in Instances \ {a} : instance'[b] = instance[b]
    BY <1>8 DEF ThreadStarted, TypeOK
  <2>3. \A i \in Ids \ {id} : store'[i] = store[i]
    BY <1>8, <2>1 DEF ThreadStarted, TypeOK
  <2>4. /\ store'[id] = None <=> store[id] = None
        /\ store[id] # None => store'[id].cwd = store[id].cwd /\ store'[id].handle
    BY <1>8, <2>1, ConstantsAssumption DEF ThreadStarted, TypeOK, Row
  <2>5. sessions' = sessions
    BY <1>8 DEF ThreadStarted
  <2> HIDE DEF id
  <2> QED BY <2>1, <2>2, <2>3, <2>4, <2>5 DEF HandlePersisted, LoadedRowHasCwd, Loaded, TypeOK
<1>9. ASSUME NEW c \in Requests, NEW id \in Ids, CloseSession(c, id) PROVE Kept
  <2>1. sessions[id] \in Instances
    BY <1>9 DEF CloseSession, TypeOK
  <2>2. \A i \in Ids : sessions'[i] \in {sessions[i], None}
    BY <1>9 DEF CloseSession, TypeOK
  <2>3. \A i \in Ids : store'[i] \in {store[i], None}
    BY <1>9 DEF CloseSession
  <2> QED BY <1>9, <2>1, <2>2, <2>3, SetPhaseType, RowsKept DEF CloseSession, Phases
<1>10. ASSUME NEW c \in Requests, CloseReturns(c) PROVE Kept
  <2>1. calls[c].inst \in Instances
    BY <1>10 DEF CloseReturns, Resumes, CallsOK, CallOK
  <2> QED BY <1>10, <2>1, SetPhaseType, RowsKept DEF CloseReturns, Phases
<1>11. ASSUME NEW c \in Requests, NEW cwd, NEW keys \in SUBSET Ids,
              NEW inst \in [Instances -> Instance],
              \A b \in Instances : inst[b].handle = instance[b].handle,
              DeleteCloses(c, cwd, keys, inst) \/ DeleteEnds(c, cwd, keys, inst)
       PROVE  Kept
  <2>1. CASE DeleteEnds(c, cwd, keys, inst)
    <3>1. \A i \in Ids : store'[i] \in {store[i], None}
      BY <2>1 DEF DeleteEnds
    <3> QED BY <1>11, <2>1, <3>1, RowsKept DEF DeleteEnds
  <2>2. CASE DeleteCloses(c, cwd, keys, inst)
    <3>1. PICK id \in keys : /\ sessions' = [sessions EXCEPT ![id] = None]
                             /\ instance' = [inst EXCEPT ![sessions[id]].phase = "closing"]
                             /\ Closes(id, cwd) /\ store' = store
      BY <2>2 DEF DeleteCloses
    <3>2. sessions[id] \in Instances
      BY <3>1 DEF Closes, TypeOK
    <3>3. \A b \in Instances : instance'[b].handle = instance[b].handle
      BY <1>11, <3>1, <3>2 DEF Instance
    <3>4. \A i \in Ids : sessions'[i] \in {sessions[i], None}
      BY <3>1 DEF TypeOK
    <3> QED BY <3>1, <3>3, <3>4, RowsKept
  <2> QED BY <1>11, <2>1, <2>2
<1>12. ASSUME NEW c \in Requests, NEW cwd \in Cwds \cup {None}, DeleteProject(c, cwd)
       PROVE  Kept
  <2>1. instance \in [Instances -> Instance] /\ Loaded \in SUBSET Ids
    BY DEF TypeOK, Loaded
  <2> QED BY <1>11, <1>12, <2>1 DEF DeleteProject
<1>13. ASSUME NEW c \in Requests, DeleteContinues(c) PROVE Kept
  <2> DEFINE inst == SetPhase(calls[c].inst, "closed")
  <2>1. calls[c].inst \in Instances /\ calls[c].keys \in SUBSET Ids
    BY <1>13 DEF DeleteContinues, Resumes, CallsOK, CallOK, TypeOK, Call
  <2>2. inst \in [Instances -> Instance] /\ \A b \in Instances : inst[b].handle = instance[b].handle
    BY <2>1, SetPhaseType DEF Phases
  <2>3. \/ DeleteCloses(c, calls[c].arg, calls[c].keys, inst)
        \/ DeleteEnds(c, calls[c].arg, calls[c].keys, inst)
    BY <1>13 DEF DeleteContinues
  <2> HIDE DEF inst
  <2> QED BY <1>11, <2>1, <2>2, <2>3
<1>14. CASE Shutdown
  <2>1. \A i \in Ids : sessions'[i] = None
    BY <1>14 DEF Shutdown
  <2> QED BY <2>1 DEF HandlePersisted, LoadedRowHasCwd, Loaded
<1>15. ASSUME NEW a \in Instances, ShutdownClosed(a) PROVE Kept
  BY <1>15, SetPhaseType, RowsKept DEF ShutdownClosed, Phases
<1>16. ASSUME NEW c \in Requests,
              \/ \E id \in Ids : Prompt(c, id)
              \/ \E id \in Ids, m \in Models : SetModel(c, id, m)
              \/ \E id \in Ids, l \in Levels \cup {None} : SetThinkingOption(c, id, l)
              \/ PromptSettles(c)
              \/ SetOptionFails(c)
       PROVE  Kept
  BY <1>0, <1>16 DEF Prompt, SetModel, SetThinkingOption, SetOption, PromptSettles, SetOptionFails
<1>17. CASE Exit
  BY <1>0, <1>17 DEF Exit
<1>18. ASSUME NEW c \in Requests,
              \/ SetModelApplies(c) \/ SetModelTimesOut(c)
              \/ SetModelUnanswered(c) \/ LateModelChange(c)
       PROVE  Kept
  <2>1. UNCHANGED <<sessions, store>>
    BY <1>18 DEF SetModelApplies, SetModelTimesOut, SetModelUnanswered, LateModelChange
  <2>2. \A b \in Instances : instance'[b].handle = instance[b].handle
    <3>1. CASE SetModelApplies(c) \/ SetModelTimesOut(c)
      BY <3>1 DEF SetModelApplies, SetModelTimesOut, TypeOK, Instance
    <3> QED BY <1>18, <3>1, OptionEffect
  <2> QED BY <2>1, <2>2, RowsKept
<1> QED
  BY <1>0, <1>1, <1>2, <1>3, <1>4, <1>5, <1>6, <1>7, <1>8, <1>9, <1>10, <1>12, <1>13,
     <1>14, <1>15, <1>16, <1>17, <1>18
     DEF Next, Request, Continue, vars

LEMMA RowsAlways == Spec => [](HandlePersisted /\ LoadedRowHasCwd)
<1>1. Init => HandlePersisted /\ LoadedRowHasCwd
  BY DEF Init, HandlePersisted, LoadedRowHasCwd, Loaded
<1> QED BY <1>1, RowsStep, IInvInvariant, PTL DEF Spec

\* HandlePersisted, whatever requests overlap.
THEOREM HandlePersistedAlways == Spec => []HandlePersisted
BY RowsAlways, PTL

\* LoadedRowHasCwd, whatever requests overlap.
THEOREM LoadedRowHasCwdAlways == Spec => []LoadedRowHasCwd
BY RowsAlways, PTL

-----------------------------------------------------------------------------
(* No agent process is lost (NoOrphan), a turn runs on the session the map *)
(* holds (TurnReachable) and a row keeps the model its session runs with   *)
(* (ModelPersisted), whatever requests overlap: what a second resume of a  *)
(* loaded id takes away is in `displaced`.                                 *)

DrainsInShutdown == daemon = "up" => draining = {}

\* The process of `a` runs; somebody who will close or register `a` knows it.
Alive(a) == instance[a].phase \in {"opening", "open", "closing"}

Holds(c, a) == calls[c].inst = a /\ calls[c].op \in {"create", "resume", "close", "delete"}

Held(a) ==
    \/ a \in draining
    \/ \E id \in Ids : sessions[id] = a
    \/ \E c \in Requests : Holds(c, a)
    \/ a \in displaced

-----------------------------------------------------------------------------
LEMMA InitOrphan == Init => DrainsInShutdown /\ NoOrphan
BY DEF Init, DrainsInShutdown, NoOrphan, Idle, Unused

\* Outside the instances X a step concerns, whoever held an instance keeps it
\* or the instance is displaced; those of X are gone or held after the step.
LEMMA HoldersKept ==
    ASSUME NoOrphan, NEW c \in Requests, NEW X \in SUBSET Instances,
           \A d \in Requests \ {c} : calls'[d] = calls[d],
           \A b \in Instances \ X : Alive(b)' => Alive(b),
           \A b \in Instances \ X : Holds(c, b) => Holds(c, b)',
           \A b \in Instances \ X, i \in Ids :
              sessions[i] = b => b \in displaced' \/ \E j \in Ids : sessions'[j] = b,
           draining \ X \subseteq draining', displaced \subseteq displaced',
           \A b \in X : Alive(b)' => Held(b)'
    PROVE  NoOrphan'
BY DEF NoOrphan, Alive, Holds, Held

\* The usual case: the step concerns one instance.
LEMMA HolderKept ==
    ASSUME NoOrphan, NEW c \in Requests, NEW a \in Instances,
           \A d \in Requests \ {c} : calls'[d] = calls[d],
           \A b \in Instances \ {a} : instance'[b] = instance[b] /\ ~Holds(c, b),
           \A b \in Instances \ {a}, i \in Ids :
              sessions[i] = b => b \in displaced' \/ \E j \in Ids : sessions'[j] = b,
           draining' = draining, displaced \subseteq displaced',
           \A b \in {a} : Alive(b)' => Held(b)'
    PROVE  NoOrphan'
<1>1. \A b \in Instances \ {a} : Alive(b)' => Alive(b)
  BY DEF Alive
<1> DEFINE X == {a}
<1>2. X \in SUBSET Instances /\ \A b \in Instances \ X : b # a
  OBVIOUS
<1>3. \A b \in X : Alive(b)' => Held(b)'
  OBVIOUS
<1>4. \A b \in Instances \ X : Alive(b)' => Alive(b)
  BY <1>1
<1>5. \A b \in Instances \ X, i \in Ids :
         sessions[i] = b => b \in displaced' \/ \E j \in Ids : sessions'[j] = b
  BY <1>2
<1> HIDE DEF X
<1> QED BY <1>2, <1>3, <1>4, <1>5, HoldersKept

\* register(): the instance it replaces, if any, is displaced.
LEMMA HolderRegistered ==
    ASSUME TypeOK, CallsOK, NoOrphan, NEW c \in Requests, calls[c].op \in {"create", "resume"},
           NEW id \in Ids, NEW row \in Row,
           Register(calls[c].inst, id, row), Reply(c), draining' = draining
    PROVE  NoOrphan'
<1> DEFINE a == calls[c].inst
<1>1. a \in Instances /\ Register(a, id, row)
  BY DEF CallsOK, CallOK
<1>2. \A d \in Requests \ {c} : calls'[d] = calls[d]
  BY ReplyEffect
<1>3. \A b \in Instances : Holds(c, b) => b = a
  BY DEF Holds
<1> HIDE DEF a
<1>4. /\ sessions'[id] = a /\ displaced \subseteq displaced'
      /\ sessions[id] = None \/ sessions[id] \in displaced'
      /\ \A b \in Instances \ {a} : instance'[b] = instance[b]
      /\ \A i \in Ids \ {id} : sessions'[i] = sessions[i]
  BY <1>1, RegisterType
<1>5. \A b \in {a} : Held(b)'
  BY <1>4 DEF Held
<1>6. \A b \in Instances \ {a}, i \in Ids :
         sessions[i] = b => b \in displaced' \/ \E j \in Ids : sessions'[j] = b
  BY <1>4, ConstantsAssumption
<1> QED BY <1>1, <1>2, <1>3, <1>4, <1>5, <1>6, HolderKept

LEMMA OrphanStep ==
    ASSUME IInv, DrainsInShutdown, NoOrphan, [Next]_vars
    PROVE  DrainsInShutdown' /\ NoOrphan'
<1> DEFINE Good == DrainsInShutdown' /\ NoOrphan'
<1> TypeOK /\ CallsOK /\ LoadedIsOpen /\ OpenersApart
  BY DEF IInv
<1>0. CASE UNCHANGED vars
  BY <1>0 DEF vars, DrainsInShutdown, NoOrphan
<1>1. ASSUME NEW c \in Requests, NEW a \in Instances, NEW row \in CreateConfigs,
             CreateSession(c, a, row)
      PROVE  Good
  <2>1. /\ instance'[a].phase = "opening"
        /\ \A b \in Instances \ {a} : instance'[b] = instance[b]
    BY <1>1, OpenType, ConstantsAssumption DEF CreateSession
  <2>2. /\ calls[c].op = "idle" /\ calls'[c].op = "create" /\ calls'[c].inst = a
        /\ \A d \in Requests \ {c} : calls'[d] = calls[d]
    BY <1>1 DEF CreateSession, CanStart, Idle, TypeOK
  <2>3. UNCHANGED <<sessions, store, issued, daemon, draining, displaced>>
    BY <1>1 DEF CreateSession
  <2>4. DrainsInShutdown'
    BY <2>3 DEF DrainsInShutdown
  <2>5. NoOrphan'
    <3>1. \A b \in Instances : ~Holds(c, b)
      BY <2>2 DEF Holds
    <3>2. \A b \in {a} : Held(b)'
      BY <2>2 DEF Held, Holds
    <3> QED BY <2>1, <2>2, <2>3, <3>1, <3>2, HolderKept
  <2> QED BY <2>4, <2>5
<1>2. ASSUME NEW c \in Requests, NEW id \in Ids, NEW handle \in BOOLEAN,
             CreateReturns(c, id, handle)
      PROVE  Good
  <2> DEFINE row == [calls[c].row EXCEPT !.handle = handle]
  <2>1. row \in Row /\ calls[c].op = "create"
    BY <1>2 DEF CreateReturns, Resumes, Row, CallsOK, CallOK
  <2>2. Register(calls[c].inst, id, row) /\ Reply(c) /\ UNCHANGED <<daemon, draining>>
    BY <1>2 DEF CreateReturns
  <2> HIDE DEF row
  <2>3. NoOrphan'
    BY <2>1, <2>2, HolderRegistered
  <2> QED BY <2>2, <2>3 DEF DrainsInShutdown
<1>3. ASSUME NEW c \in Requests, NEW a \in Instances, NEW id \in Ids,
             NEW req \in Cwds \cup {None}, NEW dirs \in SUBSET Cwds,
             ResumeSession(c, a, id, req, dirs)
      PROVE  Good
  <2> DEFINE row == [store[id] EXCEPT !.cwd = ResolveResumeCwd(@, req, dirs)]
  <2>1. row \in Row
    BY <1>3, ResolveResumeCwdType DEF ResumeSession, TypeOK, Row
  <2>2. Open(a, id, row) /\ calls' = [calls EXCEPT ![c] = [Idle EXCEPT !.op = "resume",
                                          !.id = id, !.inst = a, !.row = row]]
    BY <1>3 DEF ResumeSession
  <2> HIDE DEF row
  <2>3. /\ instance'[a].phase = "opening"
        /\ \A b \in Instances \ {a} : instance'[b] = instance[b]
    BY <2>1, <2>2, OpenType
  <2>4. /\ calls[c].op = "idle" /\ calls'[c].op = "resume" /\ calls'[c].inst = a
        /\ \A d \in Requests \ {c} : calls'[d] = calls[d]
    BY <1>3, <2>2 DEF ResumeSession, CanStart, Idle, TypeOK
  <2>5. UNCHANGED <<sessions, store, issued, daemon, draining, displaced>>
    BY <1>3 DEF ResumeSession
  <2>6. DrainsInShutdown'
    BY <2>5 DEF DrainsInShutdown
  <2>7. NoOrphan'
    <3>1. \A b \in Instances : ~Holds(c, b)
      BY <2>4 DEF Holds
    <3>2. \A b \in {a} : Held(b)'
      BY <2>4 DEF Held, Holds
    <3> QED BY <2>3, <2>4, <2>5, <3>1, <3>2, HolderKept
  <2> QED BY <2>6, <2>7
<1>4. ASSUME NEW c \in Requests, ResumeReturns(c) PROVE Good
  <2>1. calls[c].id \in Ids /\ calls[c].row \in Row /\ calls[c].op = "resume"
    BY <1>4 DEF ResumeReturns, Resumes, CallsOK, CallOK
  <2>2. /\ Register(calls[c].inst, calls[c].id, calls[c].row) /\ Reply(c)
        /\ UNCHANGED <<daemon, draining>>
    BY <1>4 DEF ResumeReturns
  <2>3. NoOrphan'
    BY <2>1, <2>2, HolderRegistered
  <2> QED BY <2>2, <2>3 DEF DrainsInShutdown
<1>5. ASSUME NEW c \in Requests, OpenFails(c) \/ CloseReturns(c) PROVE Good
  <2> DEFINE a == calls[c].inst
  <2>1. a \in Instances
    BY <1>5 DEF OpenFails, CloseReturns, Resumes, CallsOK, CallOK
  <2>2. /\ \E p \in {"closed", "leaked"} : instance' = SetPhase(a, p)
        /\ Reply(c)
        /\ UNCHANGED <<sessions, daemon, draining, displaced>>
    BY <1>5 DEF OpenFails, CloseReturns
  <2>3. \A d \in Requests \ {c} : calls'[d] = calls[d]
    BY <2>2, ReplyEffect
  <2>4. \A b \in Instances : Holds(c, b) => b = a
    BY DEF Holds
  <2> HIDE DEF a
  <2>5. /\ instance'[a].phase \in {"closed", "leaked"}
        /\ \A b \in Instances \ {a} : instance'[b] = instance[b]
    BY <2>1, <2>2, SetPhaseType DEF Phases
  <2>6. DrainsInShutdown'
    BY <2>2 DEF DrainsInShutdown
  <2>7. NoOrphan'
    <3>1. \A b \in {a} : ~Alive(b)'
      BY <2>5 DEF Alive
    <3> QED BY <2>1, <2>2, <2>3, <2>4, <2>5, <3>1, HolderKept
  <2> QED BY <2>6, <2>7
\* Requests that only work on a session hold nothing before or after a step.
<1>6. ASSUME NEW c \in Requests, calls[c].op \notin {"create", "resume", "close", "delete"},
             \A d \in Requests \ {c} : calls'[d] = calls[d],
             \A b \in Instances : instance'[b].phase = instance[b].phase,
             UNCHANGED <<sessions, daemon, draining, displaced>>
      PROVE  Good
  <2>1. DrainsInShutdown'
    BY <1>6 DEF DrainsInShutdown
  <2>2. NoOrphan'
    <3>1. \A b \in Instances : (Alive(b)' => Alive(b)) /\ ~Holds(c, b)
      BY <1>6 DEF Alive, Holds
    <3> QED BY <1>6, <3>1, HoldersKept, {} \in SUBSET Instances
  <2> QED BY <2>1, <2>2
<1>7. ASSUME NEW c \in Requests, NEW id \in Ids,
             \/ Prompt(c, id)
             \/ \E m \in Models : SetModel(c, id, m)
             \/ \E l \in Levels \cup {None} : SetThinkingOption(c, id, l)
      PROVE  Good
  <2>1. /\ calls[c].op = "idle"
        /\ \A d \in Requests \ {c} : calls'[d] = calls[d]
    BY <1>7 DEF Prompt, SetModel, SetThinkingOption, SetOption, CanStart, TypeOK
  <2>2. UNCHANGED <<sessions, instance, daemon, draining, displaced>>
    BY <1>7 DEF Prompt, SetModel, SetThinkingOption, SetOption
  <2> QED BY <2>1, <2>2, <1>6
<1>8. ASSUME NEW c \in Requests,
             \/ SetModelReturns(c) \/ SetThinkingOptionReturns(c) \/ SetOptionFails(c)
             \/ SetModelUnanswered(c) \/ LateModelChange(c)
      PROVE  Good
  <2>1. calls[c].op \in {"setModel", "modelSet", "late", "setLevel"} /\ Reply(c)
    BY <1>8 DEF SetModelReturns, SetThinkingOptionReturns, SetOptionFails,
       SetModelUnanswered, LateModelChange, Resumes
  <2>2. UNCHANGED <<sessions, daemon, draining, displaced>>
    BY <1>8 DEF SetModelReturns, SetThinkingOptionReturns, SetOptionFails,
       SetModelUnanswered, LateModelChange
  <2> QED BY <1>8, <2>1, <2>2, <1>6, OptionEffect, ReplyEffect
<1>9. ASSUME NEW c \in Requests, PromptSettles(c) PROVE Good
  <2>1. calls[c].op = "prompt" /\ Reply(c)
    BY <1>9 DEF PromptSettles, Resumes
  <2>2. UNCHANGED <<sessions, instance, daemon, draining, displaced>>
    BY <1>9 DEF PromptSettles
  <2> QED BY <2>1, <2>2, <1>6, ReplyEffect
<1>18. ASSUME NEW c \in Requests, SetModelApplies(c) \/ SetModelTimesOut(c) PROVE Good
  <2>1. /\ calls[c].op = "setModel" /\ \A d \in Requests \ {c} : calls'[d] = calls[d]
        /\ UNCHANGED <<sessions, daemon, draining, displaced>>
    BY <1>18 DEF SetModelApplies, SetModelTimesOut, Resumes, TypeOK
  <2>2. \A b \in Instances : instance'[b].phase = instance[b].phase
    BY <1>18 DEF SetModelApplies, SetModelTimesOut, TypeOK, Instance
  <2> QED BY <2>1, <2>2, <1>6
<1>10. ASSUME NEW a \in Instances, ThreadStarted(a) PROVE Good
  <2>1. \A b \in Instances : instance'[b].phase = instance[b].phase
    BY <1>10 DEF ThreadStarted, TypeOK, Instance
  <2>2. UNCHANGED <<sessions, calls, daemon, draining, displaced>>
    BY <1>10 DEF ThreadStarted
  <2> QED BY <2>1, <2>2 DEF DrainsInShutdown, NoOrphan
<1>11. ASSUME NEW c \in Requests, NEW id \in Ids, CloseSession(c, id) PROVE Good
  <2> DEFINE a == sessions[id]
  <2>1. a \in Instances
    BY <1>11 DEF CloseSession, TypeOK
  <2>2. /\ calls[c].op = "idle" /\ calls'[c].op = "close" /\ calls'[c].inst = a
        /\ \A d \in Requests \ {c} : calls'[d] = calls[d]
    BY <1>11 DEF CloseSession, CanStart, Idle, TypeOK
  <2>3. /\ UNCHANGED <<daemon, draining, displaced>>
        /\ \A i \in Ids \ {id} : sessions'[i] = sessions[i]
    BY <1>11 DEF CloseSession, TypeOK
  <2>4. instance' = SetPhase(a, "closing") /\ sessions[id] = a
    BY <1>11 DEF CloseSession
  <2> HIDE DEF a
  <2>5. \A b \in Instances \ {a} : instance'[b] = instance[b]
    BY <2>1, <2>4, SetPhaseType DEF Phases
  <2>6. DrainsInShutdown'
    BY <2>3 DEF DrainsInShutdown
  <2>7. NoOrphan'
    <3>1. \A b \in Instances : ~Holds(c, b)
      BY <2>2 DEF Holds
    <3>2. \A b \in {a} : Held(b)'
      BY <2>2 DEF Held, Holds
    <3>3. \A b \in Instances \ {a}, i \in Ids : sessions[i] = b => sessions'[i] = b
      BY <2>3, <2>4
    <3> QED BY <2>1, <2>2, <2>3, <2>5, <3>1, <3>2, <3>3, HolderKept
  <2> QED BY <2>6, <2>7
\* A segment of the loop; Z holds the instance whose close it has awaited, if any.
<1>12. ASSUME NEW c \in Requests, NEW cwd, NEW keys \in SUBSET Ids,
              NEW inst \in [Instances -> Instance], NEW Z \in SUBSET Instances,
              \A b \in Z : inst[b].phase = "closed",
              \A b \in Instances \ Z : inst[b] = instance[b] /\ ~Holds(c, b),
              DeleteCloses(c, cwd, keys, inst) \/ DeleteEnds(c, cwd, keys, inst)
       PROVE  Good
  <2>1. CASE DeleteEnds(c, cwd, keys, inst)
    <3>1. \A d \in Requests \ {c} : calls'[d] = calls[d]
      BY <2>1, ReplyEffect DEF DeleteEnds
    <3>2. instance' = inst /\ UNCHANGED <<sessions, daemon, draining, displaced>>
      BY <2>1 DEF DeleteEnds
    <3>3. DrainsInShutdown'
      BY <3>2 DEF DrainsInShutdown
    <3>4. NoOrphan'
      BY <1>12, <3>1, <3>2, HoldersKept DEF Alive
    <3> QED BY <3>3, <3>4
  <2>2. CASE DeleteCloses(c, cwd, keys, inst)
    <3>1. PICK id \in keys, skipped \in SUBSET keys :
            /\ Closes(id, cwd)
            /\ sessions' = [sessions EXCEPT ![id] = None]
            /\ instance' = [inst EXCEPT ![sessions[id]].phase = "closing"]
            /\ calls' = [calls EXCEPT ![c] = [Idle EXCEPT !.op = "delete", !.id = id,
                          !.inst = sessions[id], !.arg = cwd,
                          !.keys = keys \ ({id} \cup skipped)]]
            /\ UNCHANGED <<daemon, draining, displaced>>
      BY <2>2 DEF DeleteCloses
    <3> DEFINE a == sessions[id]
    <3>2. id \in Ids /\ a \in Instances
      BY <3>1 DEF Closes, TypeOK
    <3>3. /\ calls'[c].op = "delete" /\ calls'[c].inst = a
          /\ \A d \in Requests \ {c} : calls'[d] = calls[d]
      BY <3>1 DEF Idle, TypeOK
    <3>4. /\ UNCHANGED <<daemon, draining, displaced>>
          /\ \A i \in Ids \ {id} : sessions'[i] = sessions[i]
      BY <3>1, <3>2 DEF TypeOK
    <3>5. instance' = [inst EXCEPT ![a].phase = "closing"] /\ sessions[id] = a
      BY <3>1
    <3> HIDE DEF a
    <3>6. /\ instance'[a].phase = "closing"
          /\ \A b \in Instances \ {a} : instance'[b] = inst[b]
      BY <3>2, <3>5 DEF Instance
    <3>7. DrainsInShutdown'
      BY <3>4 DEF DrainsInShutdown
    <3>8. NoOrphan'
      <4> DEFINE X == Z \cup {a}
      <4>1. X \in SUBSET Instances
        BY <3>2
      <4>2. \A b \in Instances \ X : (Alive(b)' => Alive(b)) /\ ~Holds(c, b)
        BY <1>12, <3>6 DEF Alive
      <4>3. \A b \in X : Alive(b)' => Held(b)'
        BY <1>12, <3>3, <3>6 DEF Alive, Held, Holds
      <4>4. \A b \in Instances \ X, i \in Ids : sessions[i] = b => \E j \in Ids : sessions'[j] = b
        BY <3>4, <3>5
      <4> HIDE DEF X
      <4> QED BY <4>1, <4>2, <4>3, <4>4, <3>3, <3>4, HoldersKept
    <3> QED BY <3>7, <3>8
  <2> QED BY <1>12, <2>1, <2>2
<1>13. ASSUME NEW c \in Requests, NEW cwd \in Cwds \cup {None}, DeleteProject(c, cwd)
       PROVE  Good
  <2>1. /\ instance \in [Instances -> Instance] /\ Loaded \in SUBSET Ids /\ calls[c].op = "idle"
        /\ {} \in SUBSET Instances
    BY <1>13 DEF TypeOK, DeleteProject, CanStart, Loaded
  <2>2. \A b \in Instances : ~Holds(c, b)
    BY <2>1 DEF Holds
  <2>3. DeleteCloses(c, cwd, Loaded, instance) \/ DeleteEnds(c, cwd, Loaded, instance)
    BY <1>13 DEF DeleteProject
  <2> QED BY <1>12, <2>1, <2>2, <2>3
<1>14. ASSUME NEW c \in Requests, DeleteContinues(c) PROVE Good
  <2> DEFINE z == calls[c].inst
             inst == SetPhase(z, "closed")
  <2>1. z \in Instances /\ calls[c].keys \in SUBSET Ids
    BY <1>14 DEF DeleteContinues, Resumes, CallsOK, CallOK, TypeOK, Call
  <2>2. \A b \in Instances \ {z} : ~Holds(c, b)
    BY DEF Holds
  <2>3. \/ DeleteCloses(c, calls[c].arg, calls[c].keys, inst)
        \/ DeleteEnds(c, calls[c].arg, calls[c].keys, inst)
    BY <1>14 DEF DeleteContinues
  <2> HIDE DEF z
  <2>4. /\ inst \in [Instances -> Instance] /\ inst[z].phase = "closed"
        /\ \A b \in Instances \ {z} : inst[b] = instance[b]
    BY <2>1, SetPhaseType DEF Phases
  <2> HIDE DEF inst
  <2> QED BY <1>12, <2>1, <2>2, <2>3, <2>4, {z} \in SUBSET Instances
<1>15. CASE Shutdown
  <2>1. /\ \A b \in Instances : (\A i \in Ids : sessions[i] # b) => instance'[b] = instance[b]
        /\ \A b \in Instances : (\E i \in Ids : sessions[i] = b)
              => b \in draining' /\ instance'[b].phase = "closing"
    BY <1>15, ConstantsAssumption DEF Shutdown, Loaded, TypeOK, Instance
  <2>2. draining = {} /\ daemon' = "closing" /\ UNCHANGED <<calls, displaced>>
    BY <1>15 DEF Shutdown, DrainsInShutdown
  <2>3. DrainsInShutdown'
    BY <2>2 DEF DrainsInShutdown
  <2>4. NoOrphan'
    BY <2>1, <2>2 DEF NoOrphan
  <2> QED BY <2>3, <2>4
<1>16. ASSUME NEW a \in Instances, ShutdownClosed(a) PROVE Good
  <2>1. /\ instance'[a].phase = "closed"
        /\ \A b \in Instances \ {a} : instance'[b] = instance[b]
    BY <1>16, SetPhaseType DEF ShutdownClosed, Phases
  <2>2. /\ UNCHANGED <<sessions, calls, daemon, displaced>> /\ daemon = "closing"
        /\ draining' = draining \ {a}
    BY <1>16 DEF ShutdownClosed
  <2> QED BY <2>1, <2>2 DEF DrainsInShutdown, NoOrphan
<1>17. CASE Exit
  BY <1>17 DEF Exit, DrainsInShutdown, NoOrphan
<1> QED
  BY <1>0, <1>1, <1>2, <1>3, <1>4, <1>5, <1>7, <1>8, <1>9, <1>10, <1>11, <1>13, <1>14,
     <1>15, <1>16, <1>17, <1>18
     DEF Next, Request, Continue

\* NoOrphan: closes, deletions, openings and the shutdown hand every instance on
\* to somebody who will close it; only register() over a loaded id drops one.
THEOREM NoOrphanAlways == Spec => []NoOrphan
<1>1. IInv /\ DrainsInShutdown /\ NoOrphan /\ [Next]_vars => DrainsInShutdown' /\ NoOrphan'
  BY OrphanStep
<1> QED BY InitOrphan, <1>1, IInvInvariant, PTL DEF Spec

-----------------------------------------------------------------------------
(* What the map, the instances and the rows say of one session agrees.     *)

Opening == {"create", "resume"}
Working == {"prompt", "setModel", "modelSet", "late", "setLevel"}

\* An agent is started with the settings its request goes on to store.
StartsFromRow ==
    \A c \in Requests : calls[c].op \in Opening =>
        instance[calls[c].inst].model = calls[c].row.model

\* The converse of LoadedIsOpen.
OpenIsLoaded ==
    \A a \in Instances : instance[a].phase = "open" =>
        sessions[instance[a].id] = a \/ a \in displaced

\* What was displaced had been registered.
DisplacedWasOpen ==
    \A a \in displaced : a \in Instances /\ instance[a].phase \in {"open", "closing", "closed"}

\* A request that works on a session took the instance of its own id, which was
\* registered by then and never comes back once it is closed.
OnOwnId ==
    \A c \in Requests : calls[c].op \in Working =>
        /\ instance[calls[c].inst].phase \in {"open", "closing", "closed"}
        /\ instance[calls[c].inst].id = calls[c].id

\* Between the change of an agent's model and its answer nothing changes it
\* again, unless it is a change that had failed.
ChangeStands ==
    /\ \A c \in Requests : calls[c].op = "modelSet" =>
          \/ instance[calls[c].inst].model = calls[c].arg
          \/ instance[calls[c].inst].drifted
    /\ \A c, d \in Requests :
          /\ calls[c].op = "modelSet" /\ calls[d].op = "modelSet"
          /\ calls[c].inst = calls[d].inst
          => c = d

\* The inductive invariant behind TurnReachable and ModelPersisted, on top of
\* IInv.
KInv ==
    /\ StartsFromRow
    /\ OpenIsLoaded
    /\ DisplacedWasOpen
    /\ OnOwnId
    /\ ChangeStands
    /\ ModelPersisted

LEMMA InitKInv == Init => KInv
BY DEF Init, KInv, StartsFromRow, OpenIsLoaded, DisplacedWasOpen, OnOwnId, ChangeStands,
       ModelPersisted, Loaded, Opening, Working, Idle, Unused

\* What a step may do to the sessions without disturbing their agreement: end
\* requests other than those whose change awaits its answer, close instances,
\* unload keys, remove rows, and mark the instances whose model it changes.
LEMMA AgreementKept ==
    ASSUME IInv, KInv,
           \A d \in Requests :
              calls'[d] = calls[d]
                 \/ (calls'[d].op \notin Opening \cup Working /\ calls[d].op # "modelSet"),
           \A b \in Instances :
              /\ instance'[b].id = instance[b].id
              /\ instance'[b].model = instance[b].model \/ instance'[b].drifted
              /\ instance[b].phase = "opening" => instance'[b].model = instance[b].model
              /\ instance[b].drifted => instance'[b].drifted
              /\ instance[b].phase \in {"open", "closing", "closed"}
                    => instance'[b].phase \in {"open", "closing", "closed"}
              /\ instance'[b].phase = "open" =>
                    /\ instance[b].phase = "open"
                    /\ sessions'[instance[b].id] = sessions[instance[b].id] \/ b \in displaced,
           \A i \in Ids : sessions'[i] \in {sessions[i], None},
           \A i \in Ids : store'[i] # None =>
              store[i] # None /\ store'[i].model = store[i].model,
           displaced' = displaced
    PROVE  KInv'
<1> USE DEF IInv, KInv
<1>1. \A d \in Requests : calls[d].op \in Opening \cup Working => calls[d].inst \in Instances
  BY DEF CallsOK, CallOK, Opening, Working
<1>2. StartsFromRow'
  BY <1>1 DEF StartsFromRow, CallsOK, CallOK, Opening
<1>3. OpenIsLoaded'
  BY DEF OpenIsLoaded
<1>4. OnOwnId'
  BY <1>1 DEF OnOwnId
<1>5. DisplacedWasOpen'
  BY DEF DisplacedWasOpen
<1>6. ChangeStands'
  <2>1. \A d \in Requests : calls'[d].op = "modelSet" =>
           calls'[d] = calls[d] /\ calls[d].inst \in Instances
    BY <1>1 DEF Working
  <2> QED BY <2>1 DEF ChangeStands
<1>7. ModelPersisted'
  <2> SUFFICES ASSUME NEW id \in Ids, sessions'[id] # None, store'[id] # None
               PROVE  \/ store'[id].model = instance'[sessions'[id]].model
                      \/ \E c \in Requests : calls'[c].op = "modelSet"
                                             /\ calls'[c].inst = sessions'[id]
                      \/ instance'[sessions'[id]].drifted
                      \/ \E b \in displaced' : instance'[b].id = id
    BY DEF ModelPersisted, Loaded
  <2>1. /\ sessions'[id] = sessions[id] /\ sessions[id] \in Instances
        /\ store[id] # None /\ store'[id].model = store[id].model
    BY DEF TypeOK
  <2>2. CASE store[id].model = instance[sessions[id]].model \/ instance[sessions[id]].drifted
    BY <2>1, <2>2
  <2>3. ASSUME NEW c \in Requests, calls[c].op = "modelSet", calls[c].inst = sessions[id]
        PROVE  calls'[c].op = "modelSet" /\ calls'[c].inst = sessions'[id]
    BY <2>1, <2>3
  <2>4. ASSUME NEW b \in displaced, instance[b].id = id
        PROVE  b \in displaced' /\ instance'[b].id = id
    BY <2>4 DEF DisplacedWasOpen
  <2> QED BY <2>1, <2>2, <2>3, <2>4 DEF ModelPersisted, Loaded
<1> QED BY <1>2, <1>3, <1>4, <1>5, <1>6, <1>7

\* register(), with the model the agent runs with.
LEMMA AgreementRegistered ==
    ASSUME IInv, KInv, NEW c \in Requests, calls[c].op \in Opening,
           NEW id \in Ids, NEW row \in Row, row.model = calls[c].row.model,
           Register(calls[c].inst, id, row), Reply(c)
    PROVE  KInv'
<1> DEFINE a == calls[c].inst
<1> USE DEF IInv, KInv
<1>1. a \in Instances /\ instance[a].phase = "opening" /\ instance[a].model = row.model
  BY DEF CallsOK, CallOK, StartsFromRow, Opening
<1>2. /\ calls'[c].op = "idle"
      /\ \A d \in Requests \ {c} :
            /\ calls'[d] = calls[d]
            /\ calls[d].op \in Opening => calls[d].inst \in Instances \ {a}
            /\ calls[d].op \in Working => calls[d].inst \in Instances \ {a}
  BY <1>1, ReplyEffect DEF CallsOK, CallOK, OpenersApart, OnOwnId, Opening, Working
<1>3. Register(a, id, row) /\ calls[c].op # "modelSet"
  BY DEF Opening
<1> HIDE DEF a
<1>4. /\ instance'[a].phase = "open" /\ instance'[a].id = id
      /\ instance'[a].model = row.model
      /\ \A b \in Instances \ {a} : instance'[b] = instance[b]
      /\ sessions'[id] = a /\ store'[id] = row
      /\ \A i \in Ids \ {id} : sessions'[i] = sessions[i] /\ store'[i] = store[i]
      /\ displaced \subseteq displaced'
      /\ sessions[id] = None \/ sessions[id] \in displaced'
      /\ \A b \in displaced' : b \in Instances /\ (b \in displaced \/ b = sessions[id])
  BY <1>1, <1>3, RegisterType
<1>5. StartsFromRow'
  BY <1>2, <1>4 DEF StartsFromRow, Opening
<1>6. OpenIsLoaded'
  BY <1>4, ConstantsAssumption DEF OpenIsLoaded, OpenHasId
<1>7. OnOwnId'
  BY <1>2, <1>4 DEF OnOwnId, Working
<1>8. \A b \in displaced : b \in Instances \ {a}
  BY <1>1 DEF DisplacedWasOpen
<1>9. DisplacedWasOpen'
  <2>1. sessions[id] \in Instances => instance[sessions[id]].phase = "open"
    BY ConstantsAssumption DEF LoadedIsOpen, Loaded
  <2> QED BY <1>1, <1>4, <1>8, <2>1 DEF DisplacedWasOpen
<1>10. ChangeStands'
  BY <1>2, <1>4 DEF ChangeStands, Working
<1>11. ModelPersisted'
  <2>1. \A i \in Ids \ {id} : sessions[i] # a
    BY <1>1, ConstantsAssumption DEF LoadedIsOpen, Loaded
  <2>2. ASSUME NEW i \in Ids \ {id}, sessions[i] # None, store[i] # None
        PROVE  \/ store'[i].model = instance'[sessions'[i]].model
               \/ \E d \in Requests : calls'[d].op = "modelSet" /\ calls'[d].inst = sessions'[i]
               \/ instance'[sessions'[i]].drifted
               \/ \E b \in displaced' : instance'[b].id = i
    <3>1. sessions[i] \in Instances \ {a} /\ sessions'[i] = sessions[i] /\ store'[i] = store[i]
      BY <1>4, <2>1, <2>2 DEF TypeOK
    <3>2. ASSUME NEW d \in Requests, calls[d].op = "modelSet", calls[d].inst = sessions[i]
          PROVE  calls'[d].op = "modelSet" /\ calls'[d].inst = sessions'[i]
      BY <1>2, <1>3, <3>1, <3>2
    <3>3. ASSUME NEW b \in displaced, instance[b].id = i
          PROVE  b \in displaced' /\ instance'[b].id = i
      BY <1>4, <1>8, <3>3
    <3> QED BY <1>4, <2>2, <3>1, <3>2, <3>3 DEF ModelPersisted, Loaded
  <2> QED BY <1>4, <2>2 DEF ModelPersisted, Loaded
<1> QED BY <1>5, <1>6, <1>7, <1>9, <1>10, <1>11

LEMMA AgreementStep ==
    ASSUME IInv, KInv, [Next]_vars
    PROVE  KInv'
<1> TypeOK /\ CallsOK /\ LoadedIsOpen
  BY DEF IInv
<1>0. CASE UNCHANGED vars
  BY <1>0 DEF vars, KInv, StartsFromRow, OpenIsLoaded, DisplacedWasOpen, OnOwnId,
     ChangeStands, ModelPersisted, Loaded
<1>1. ASSUME NEW c \in Requests, NEW a \in Instances, NEW row \in Row, NEW id \in Ids \cup {None},
             Open(a, id, row), calls[c].op = "idle",
             calls'[c].op \in Opening, calls'[c].inst = a,
             calls'[c].row = row, \A d \in Requests \ {c} : calls'[d] = calls[d],
             UNCHANGED <<sessions, store, displaced>>
      PROVE  KInv'
  <2>1. /\ instance'[a].phase = "opening" /\ instance[a].phase = "unused"
        /\ instance'[a].model = row.model
        /\ \A b \in Instances \ {a} : instance'[b] = instance[b]
    BY <1>1, OpenType
  <2>2. StartsFromRow'
    BY <1>1, <2>1 DEF KInv, StartsFromRow, CallsOK, CallOK, Opening
  <2>3. OpenIsLoaded'
    BY <1>1, <2>1 DEF KInv, OpenIsLoaded
  <2>4. OnOwnId'
    BY <1>1, <2>1 DEF KInv, OnOwnId, CallsOK, CallOK, Opening, Working
  <2>5. DisplacedWasOpen' /\ \A b \in displaced : b \in Instances \ {a}
    BY <1>1, <2>1 DEF KInv, DisplacedWasOpen
  <2>6. ChangeStands'
    <3>1. \A d \in Requests : calls'[d].op = "modelSet" =>
             calls'[d] = calls[d] /\ calls[d].inst \in Instances \ {a}
      BY <1>1, <2>1 DEF KInv, OnOwnId, CallsOK, CallOK, Opening, Working
    <3> QED BY <2>1, <3>1 DEF KInv, ChangeStands
  <2>7. ModelPersisted'
    <3>1. \A i \in Ids : sessions[i] # None => sessions[i] \in Instances \ {a}
      BY <2>1 DEF Loaded, LoadedIsOpen, TypeOK
    <3>2. \A d \in Requests : calls[d].op = "modelSet" => calls'[d] = calls[d]
      BY <1>1
    <3> QED BY <1>1, <2>1, <2>5, <3>1, <3>2 DEF KInv, ModelPersisted, Loaded
  <2> QED BY <2>2, <2>3, <2>4, <2>5, <2>6, <2>7 DEF KInv
<1>2. ASSUME NEW c \in Requests, NEW a \in Instances, NEW row \in CreateConfigs,
             CreateSession(c, a, row)
      PROVE  KInv'
  <2>1. row \in Row
    BY ConstantsAssumption
  <2>2. /\ calls'[c].op = "create" /\ calls'[c].inst = a /\ calls'[c].row = row
        /\ \A d \in Requests \ {c} : calls'[d] = calls[d]
    BY <1>2 DEF CreateSession, Idle, TypeOK
  <2> QED BY <1>1, <1>2, <2>1, <2>2 DEF CreateSession, CanStart, Opening
<1>3. ASSUME NEW c \in Requests, NEW id \in Ids, NEW handle \in BOOLEAN,
             CreateReturns(c, id, handle)
      PROVE  KInv'
  <2> DEFINE row == [calls[c].row EXCEPT !.handle = handle]
  <2>1. /\ row \in Row /\ row.model = calls[c].row.model
        /\ calls[c].op \in Opening
    BY <1>3 DEF CreateReturns, Resumes, Row, CallsOK, CallOK, Opening
  <2>2. Register(calls[c].inst, id, row) /\ Reply(c)
    BY <1>3 DEF CreateReturns
  <2> HIDE DEF row
  <2> QED BY <2>1, <2>2, AgreementRegistered
<1>4. ASSUME NEW c \in Requests, NEW a \in Instances, NEW id \in Ids,
             NEW req \in Cwds \cup {None}, NEW dirs \in SUBSET Cwds,
             ResumeSession(c, a, id, req, dirs)
      PROVE  KInv'
  <2> DEFINE row == [store[id] EXCEPT !.cwd = ResolveResumeCwd(@, req, dirs)]
  <2>1. row \in Row
    BY <1>4, ResolveResumeCwdType DEF ResumeSession, TypeOK, Row
  <2>2. Open(a, id, row) /\ calls' = [calls EXCEPT ![c] = [Idle EXCEPT !.op = "resume",
                                          !.id = id, !.inst = a, !.row = row]]
    BY <1>4 DEF ResumeSession
  <2> HIDE DEF row
  <2>3. /\ calls'[c].op = "resume" /\ calls'[c].inst = a /\ calls'[c].row = row
        /\ \A d \in Requests \ {c} : calls'[d] = calls[d]
    BY <2>2 DEF Idle, TypeOK
  <2> QED BY <1>1, <1>4, <2>1, <2>2, <2>3 DEF ResumeSession, CanStart, Opening
<1>5. ASSUME NEW c \in Requests, ResumeReturns(c) PROVE KInv'
  <2>1. calls[c].op \in Opening /\ calls[c].id \in Ids /\ calls[c].row \in Row
    BY <1>5 DEF ResumeReturns, Resumes, CallsOK, CallOK, Opening
  <2> QED BY <1>5, <2>1, AgreementRegistered DEF ResumeReturns
<1>6. ASSUME NEW c \in Requests, OpenFails(c) \/ CloseReturns(c) PROVE KInv'
  <2>1. /\ calls[c].inst \in Instances /\ calls[c].op # "modelSet"
        /\ \/ instance[calls[c].inst].phase = "opening"
           \/ instance[calls[c].inst].phase \in {"closing", "closed"}
              /\ instance' = SetPhase(calls[c].inst, "closed")
    BY <1>6 DEF OpenFails, CloseReturns, Resumes, CallsOK, CallOK
  <2>2. /\ \E p \in {"closed", "leaked"} : instance' = SetPhase(calls[c].inst, p)
        /\ Reply(c) /\ UNCHANGED <<sessions, store, displaced>>
    BY <1>6 DEF OpenFails, CloseReturns
  <2>3. \A d \in Requests : calls'[d] = calls[d]
           \/ (calls'[d].op \notin Opening \cup Working /\ calls[d].op # "modelSet")
    BY <2>1, <2>2, ReplyEffect DEF Opening, Working
  <2>4. \A b \in Instances :
            /\ instance'[b].model = instance[b].model /\ instance'[b].id = instance[b].id
            /\ instance'[b].drifted <=> instance[b].drifted
            /\ b # calls[c].inst => instance'[b] = instance[b]
            /\ instance'[calls[c].inst].phase \in {"closed", "leaked"}
    BY <2>1, <2>2, SetPhaseType DEF Phases
  <2>5. instance' = SetPhase(calls[c].inst, "closed") => instance'[calls[c].inst].phase = "closed"
    BY <2>1, SetPhaseType DEF Phases
  <2> QED BY <2>1, <2>2, <2>3, <2>4, <2>5, AgreementKept
<1>7. ASSUME NEW c \in Requests, NEW id \in Ids,
             \/ Prompt(c, id)
             \/ \E m \in Models : SetModel(c, id, m)
             \/ \E l \in Levels \cup {None} : SetThinkingOption(c, id, l)
      PROVE  KInv'
  <2>1. /\ calls'[c].op \in Working \ {"modelSet"} /\ calls'[c].id = id
        /\ calls'[c].inst = sessions[id]
        /\ sessions[id] # None /\ calls[c].op = "idle"
        /\ \A d \in Requests \ {c} : calls'[d] = calls[d]
        /\ UNCHANGED <<sessions, store, instance, displaced>>
    <3>1. CASE Prompt(c, id)
      BY <3>1 DEF Prompt, CanStart, Idle, TypeOK, Working
    <3>2. ASSUME NEW op \in Working \ {"modelSet"}, NEW v, SetOption(c, id, op, v)
          PROVE  /\ calls'[c].op \in Working \ {"modelSet"} /\ calls'[c].id = id
                 /\ calls'[c].inst = sessions[id]
                 /\ sessions[id] # None /\ calls[c].op = "idle"
                 /\ \A d \in Requests \ {c} : calls'[d] = calls[d]
                 /\ UNCHANGED <<sessions, store, instance, displaced>>
      BY <3>2 DEF SetOption, CanStart, Idle, TypeOK
    <3> QED BY <1>7, <3>1, <3>2 DEF SetModel, SetThinkingOption, Working
  <2>2. OnOwnId'
    BY <2>1 DEF KInv, OnOwnId, LoadedIsOpen, Loaded
  <2>3. StartsFromRow' /\ OpenIsLoaded' /\ DisplacedWasOpen'
    BY <2>1 DEF KInv, StartsFromRow, OpenIsLoaded, DisplacedWasOpen, Opening, Working
  <2>4. ChangeStands'
    BY <2>1 DEF KInv, ChangeStands
  <2>5. ModelPersisted'
    <3>1. \A d \in Requests : calls[d].op = "modelSet" => calls'[d] = calls[d]
      BY <2>1
    <3> QED BY <2>1, <3>1 DEF KInv, ModelPersisted, Loaded
  <2> QED BY <2>2, <2>3, <2>4, <2>5 DEF KInv
<1>8. ASSUME NEW c \in Requests,
             \/ PromptSettles(c) \/ SetOptionFails(c)
             \/ SetThinkingOptionReturns(c) \/ LateModelChange(c)
      PROVE  KInv'
  <2>1. /\ Reply(c) /\ UNCHANGED <<sessions, displaced>>
        /\ calls[c].op \in Working \ {"modelSet"}
    BY <1>8 DEF PromptSettles, SetOptionFails, SetThinkingOptionReturns, LateModelChange,
       Resumes, Working
  <2>2. \A d \in Requests : calls'[d] = calls[d]
           \/ (calls'[d].op \notin Opening \cup Working /\ calls[d].op # "modelSet")
    BY <2>1, ReplyEffect DEF Opening, Working
  <2>3. \A b \in Instances :
           /\ instance'[b].phase = instance[b].phase /\ instance'[b].id = instance[b].id
           /\ instance[b].drifted => instance'[b].drifted
           /\ instance'[b].model = instance[b].model \/ instance'[b].drifted
    <3>1. CASE PromptSettles(c)
      BY <3>1 DEF PromptSettles
    <3> QED BY <1>8, <3>1, OptionEffect
  <2>4. \A b \in Instances : instance[b].phase = "opening" => instance'[b].model = instance[b].model
    <3>1. CASE PromptSettles(c) \/ SetOptionFails(c) \/ SetThinkingOptionReturns(c)
      BY <3>1 DEF PromptSettles, SetOptionFails, SetThinkingOptionReturns
    <3>2. CASE LateModelChange(c)
      BY <3>2 DEF LateModelChange, TypeOK, Instance
    <3> QED BY <1>8, <3>1, <3>2
  <2>5. \A i \in Ids : store'[i] # None => store[i] # None /\ store'[i].model = store[i].model
    <3>1. CASE PromptSettles(c) \/ SetOptionFails(c) \/ LateModelChange(c)
      BY <3>1 DEF PromptSettles, SetOptionFails, LateModelChange
    <3>2. CASE SetThinkingOptionReturns(c)
      BY <3>2 DEF SetThinkingOptionReturns, TypeOK, Row
    <3> QED BY <1>8, <3>1, <3>2
  <2> QED BY <2>1, <2>2, <2>3, <2>4, <2>5, AgreementKept
<1>9. ASSUME NEW c \in Requests, SetModelReturns(c) PROVE KInv'
  <2> DEFINE a == calls[c].inst
             id == calls[c].id
             m == calls[c].arg
  <2>1. /\ a \in Instances /\ id \in Ids /\ instance[a].phase = "open" /\ instance[a].id = id
        /\ sessions[id] = a \/ a \in displaced
        /\ instance[a].model = m \/ instance[a].drifted
        /\ calls[c].op = "modelSet"
    BY <1>9 DEF SetModelReturns, Resumes, CallsOK, CallOK, KInv, OnOwnId, OpenIsLoaded,
       ChangeStands, Working
  <2>2. /\ calls'[c].op = "idle" /\ \A d \in Requests \ {c} : calls'[d] = calls[d]
        /\ UNCHANGED <<sessions, instance, displaced>>
    BY <1>9, ReplyEffect DEF SetModelReturns
  <2>3. store' = IF store[id] = None THEN store ELSE [store EXCEPT ![id].model = m]
    BY <1>9 DEF SetModelReturns
  <2>9. \A d \in Requests : calls[d].inst = a /\ d # c => calls[d].op # "modelSet"
    BY <2>1 DEF KInv, ChangeStands
  <2> HIDE DEF id, m
  <2>5. /\ store[id] # None => store'[id].model = m
        /\ store[id] = None => store'[id] = None
        /\ \A i \in Ids \ {id} : store'[i] = store[i]
    BY <2>1, <2>3 DEF TypeOK, Row
  <2>6. StartsFromRow' /\ OpenIsLoaded' /\ DisplacedWasOpen'
    BY <2>2 DEF KInv, StartsFromRow, OpenIsLoaded, DisplacedWasOpen, Opening
  <2>7. OnOwnId' /\ ChangeStands'
    BY <2>2 DEF KInv, OnOwnId, ChangeStands, Working
  <2>8. ModelPersisted'
    <3> SUFFICES ASSUME NEW i \in Ids, sessions[i] # None, store'[i] # None
                 PROVE  \/ store'[i].model = instance[sessions[i]].model
                        \/ \E d \in Requests : calls'[d].op = "modelSet"
                                               /\ calls'[d].inst = sessions[i]
                        \/ instance[sessions[i]].drifted
                        \/ \E b \in displaced : instance[b].id = i
      BY <2>2 DEF ModelPersisted, Loaded
    <3>1. CASE i = id
      <4>1. store'[i].model = m
        BY <2>5, <3>1
      <4> QED BY <2>1, <3>1, <4>1
    <3>2. CASE i # id
      <4>1. sessions[i] # a
        BY <2>1, <3>2 DEF LoadedIsOpen, Loaded
      <4>2. store[i] # None /\ store'[i] = store[i]
        BY <2>5, <3>2
      <4>3. \A d \in Requests : calls[d].op = "modelSet" /\ calls[d].inst = sessions[i]
               => calls'[d] = calls[d]
        BY <2>2, <4>1
      <4> QED BY <4>2, <4>3 DEF KInv, ModelPersisted, Loaded
    <3> QED BY <3>1, <3>2
  <2> QED BY <2>6, <2>7, <2>8 DEF KInv
<1>10. ASSUME NEW c \in Requests, SetModelApplies(c) PROVE KInv'
  <2> DEFINE a == calls[c].inst
  <2>1. /\ a \in Instances /\ instance[a].phase = "open" /\ calls[c].op = "setModel"
        /\ \A d \in Requests : calls[d].op = "modelSet" => calls[d].inst # a
        /\ UNCHANGED <<sessions, store, displaced>>
    BY <1>10 DEF SetModelApplies, Resumes, CallsOK, CallOK
  <2>2. /\ calls'[c].op = "modelSet" /\ calls'[c].inst = a /\ calls'[c].id = calls[c].id
        /\ calls'[c].arg = calls[c].arg
        /\ \A d \in Requests \ {c} : calls'[d] = calls[d]
    BY <1>10 DEF SetModelApplies, TypeOK, Call
  <2>3. /\ instance'[a].model = calls[c].arg
        /\ \A b \in Instances : /\ b # a => instance'[b] = instance[b]
                                /\ instance'[b].phase = instance[b].phase
                                /\ instance'[b].id = instance[b].id
                                /\ instance'[b].drifted <=> instance[b].drifted
    BY <1>10, <2>1 DEF SetModelApplies, TypeOK, Instance
  <2>4. StartsFromRow'
    BY <2>1, <2>2, <2>3 DEF KInv, StartsFromRow, CallsOK, CallOK, Opening
  <2>5. OpenIsLoaded' /\ DisplacedWasOpen'
    BY <2>1, <2>3 DEF KInv, OpenIsLoaded, DisplacedWasOpen
  <2>6. OnOwnId'
    BY <2>1, <2>2, <2>3 DEF KInv, OnOwnId, CallsOK, CallOK, Working
  <2>7. ChangeStands'
    BY <2>1, <2>2, <2>3 DEF KInv, ChangeStands, CallsOK, CallOK
  <2>8. ModelPersisted'
    <3> SUFFICES ASSUME NEW i \in Ids, sessions[i] # None, store[i] # None
                 PROVE  \/ store[i].model = instance'[sessions[i]].model
                        \/ \E d \in Requests : calls'[d].op = "modelSet"
                                               /\ calls'[d].inst = sessions[i]
                        \/ instance'[sessions[i]].drifted
                        \/ \E b \in displaced : instance'[b].id = i
      BY <2>1 DEF ModelPersisted, Loaded
    <3>1. CASE sessions[i] = a
      BY <2>2, <3>1
    <3>2. CASE sessions[i] # a
      <4>1. instance'[sessions[i]] = instance[sessions[i]]
        BY <2>3, <3>2 DEF TypeOK
      <4>2. \A d \in Requests : calls[d].op = "modelSet" => calls'[d] = calls[d]
        BY <2>1, <2>2
      <4>3. \A b \in displaced : instance'[b].id = instance[b].id
        BY <2>3 DEF TypeOK
      <4> QED BY <4>1, <4>2, <4>3 DEF KInv, ModelPersisted, Loaded
    <3> QED BY <3>1, <3>2
  <2> QED BY <2>4, <2>5, <2>6, <2>7, <2>8 DEF KInv
<1>19. ASSUME NEW c \in Requests, SetModelTimesOut(c) PROVE KInv'
  <2>1. /\ calls[c].op = "setModel" /\ calls'[c].op = "late"
        /\ calls'[c].inst = calls[c].inst /\ calls'[c].id = calls[c].id
        /\ \A d \in Requests \ {c} : calls'[d] = calls[d]
        /\ UNCHANGED <<sessions, store, instance, displaced>>
    BY <1>19 DEF SetModelTimesOut, Resumes, TypeOK, Call
  <2>2. StartsFromRow' /\ OpenIsLoaded' /\ DisplacedWasOpen'
    BY <2>1 DEF KInv, StartsFromRow, OpenIsLoaded, DisplacedWasOpen, Opening
  <2>3. OnOwnId' /\ ChangeStands'
    BY <2>1 DEF KInv, OnOwnId, ChangeStands, Working
  <2>4. \A d \in Requests : calls[d].op = "modelSet" => calls'[d] = calls[d]
    BY <2>1
  <2>5. ModelPersisted'
    BY <2>1, <2>4 DEF KInv, ModelPersisted, Loaded
  <2> QED BY <2>2, <2>3, <2>5 DEF KInv
<1>20. ASSUME NEW c \in Requests, SetModelUnanswered(c) PROVE KInv'
  <2> DEFINE a == calls[c].inst
  <2>1. /\ a \in Instances /\ calls[c].op = "modelSet" /\ Reply(c)
        /\ UNCHANGED <<sessions, store, displaced>>
    BY <1>20 DEF SetModelUnanswered, Resumes, CallsOK, CallOK
  <2>2. calls'[c].op = "idle" /\ \A d \in Requests \ {c} : calls'[d] = calls[d]
    BY <2>1, ReplyEffect
  <2>3. /\ instance'[a].drifted
        /\ \A b \in Instances : /\ b # a => instance'[b] = instance[b]
                                /\ instance'[b].phase = instance[b].phase
                                /\ instance'[b].id = instance[b].id
                                /\ instance'[b].model = instance[b].model
    BY <1>20, <2>1 DEF SetModelUnanswered, TypeOK, Instance
  <2>4. StartsFromRow'
    BY <2>2, <2>3 DEF KInv, StartsFromRow, CallsOK, CallOK, Opening
  <2>5. OpenIsLoaded' /\ DisplacedWasOpen'
    BY <2>1, <2>3 DEF KInv, OpenIsLoaded, DisplacedWasOpen
  <2>6. OnOwnId'
    BY <2>2, <2>3 DEF KInv, OnOwnId, CallsOK, CallOK, Working
  <2>7. ChangeStands'
    BY <2>1, <2>2, <2>3 DEF KInv, ChangeStands, CallsOK, CallOK
  <2>8. ModelPersisted'
    <3> SUFFICES ASSUME NEW i \in Ids, sessions[i] # None, store[i] # None
                 PROVE  \/ store[i].model = instance'[sessions[i]].model
                        \/ \E d \in Requests : calls'[d].op = "modelSet"
                                               /\ calls'[d].inst = sessions[i]
                        \/ instance'[sessions[i]].drifted
                        \/ \E b \in displaced : instance'[b].id = i
      BY <2>1 DEF ModelPersisted, Loaded
    <3>1. CASE sessions[i] = a
      BY <2>3, <3>1
    <3>2. CASE sessions[i] # a
      <4>1. instance'[sessions[i]] = instance[sessions[i]]
        BY <2>3, <3>2 DEF TypeOK
      <4>2. \A d \in Requests : calls[d].inst = sessions[i] => calls'[d] = calls[d]
        BY <2>2, <3>2
      <4>3. \A b \in displaced : instance'[b].id = instance[b].id
        BY <2>3 DEF TypeOK
      <4> QED BY <4>1, <4>2, <4>3 DEF KInv, ModelPersisted, Loaded
    <3> QED BY <3>1, <3>2
  <2> QED BY <2>4, <2>5, <2>6, <2>7, <2>8 DEF KInv
<1>11. ASSUME NEW a \in Instances, ThreadStarted(a) PROVE KInv'
  <2>1. \A b \in Instances : /\ instance'[b].phase = instance[b].phase
                             /\ instance'[b].model = instance[b].model
                             /\ instance'[b].id = instance[b].id
                             /\ instance'[b].drifted <=> instance[b].drifted
    BY <1>11 DEF ThreadStarted, TypeOK, Instance
  <2>2. \A i \in Ids : store'[i] # None => store[i] # None /\ store'[i].model = store[i].model
    BY <1>11 DEF ThreadStarted, TypeOK, Row
  <2> QED BY <1>11, <2>1, <2>2, AgreementKept DEF ThreadStarted
<1>12. ASSUME NEW c \in Requests, NEW id \in Ids, CloseSession(c, id) PROVE KInv'
  <2> DEFINE a == sessions[id]
  <2>1. a \in Instances /\ instance[a].phase = "open" /\ instance[a].id = id
    BY <1>12 DEF CloseSession, TypeOK, LoadedIsOpen, Loaded
  <2>2. /\ calls[c].op = "idle" /\ calls'[c].op = "close"
        /\ \A d \in Requests \ {c} : calls'[d] = calls[d]
        /\ sessions' = [sessions EXCEPT ![id] = None] /\ instance' = SetPhase(a, "closing")
        /\ UNCHANGED <<store, displaced>>
    BY <1>12 DEF CloseSession, CanStart, Idle, TypeOK
  <2> HIDE DEF a
  <2>3. /\ instance'[a].phase = "closing"
        /\ \A b \in Instances : /\ instance'[b].model = instance[b].model
                                /\ instance'[b].id = instance[b].id
                                /\ instance'[b].drifted <=> instance[b].drifted
                                /\ b # a => instance'[b] = instance[b]
    BY <2>1, <2>2, SetPhaseType DEF Phases
  <2>4. \A b \in Instances \ {a} : instance[b].phase = "open" =>
           instance[b].id \in Ids /\ (instance[b].id # id \/ b \in displaced)
    BY <1>12 DEF KInv, OpenIsLoaded, IInv, OpenHasId, a
  <2>5. \A d \in Requests : calls'[d] = calls[d]
           \/ (calls'[d].op \notin Opening \cup Working /\ calls[d].op # "modelSet")
    BY <2>2 DEF Opening, Working
  <2>6. /\ \A i \in Ids \ {id} : sessions'[i] = sessions[i]
        /\ \A i \in Ids : sessions'[i] \in {sessions[i], None}
    BY <2>2 DEF TypeOK
  <2> QED BY <2>1, <2>2, <2>3, <2>4, <2>5, <2>6, AgreementKept
<1>13. ASSUME NEW c \in Requests, NEW cwd, NEW keys \in SUBSET Ids,
              NEW inst \in [Instances -> Instance], calls[c].op \in {"idle", "delete"},
              \A b \in Instances :
                 /\ inst[b].model = instance[b].model /\ inst[b].id = instance[b].id
                 /\ inst[b].drifted <=> instance[b].drifted
                 /\ inst[b].phase = instance[b].phase
                       \/ /\ instance[b].phase \in {"closing", "closed"}
                          /\ inst[b].phase = "closed",
              DeleteCloses(c, cwd, keys, inst) \/ DeleteEnds(c, cwd, keys, inst)
       PROVE  KInv'
  <2>1. CASE DeleteEnds(c, cwd, keys, inst)
    <3>1. \A d \in Requests : calls'[d] = calls[d]
             \/ (calls'[d].op \notin Opening \cup Working /\ calls[d].op # "modelSet")
      BY <1>13, <2>1, ReplyEffect DEF DeleteEnds, Opening, Working
    <3>2. /\ instance' = inst /\ UNCHANGED <<sessions, displaced>>
          /\ \A i \in Ids : store'[i] # None => store[i] # None /\ store'[i].model = store[i].model
      BY <2>1 DEF DeleteEnds
    <3> QED BY <1>13, <3>1, <3>2, AgreementKept
  <2>2. CASE DeleteCloses(c, cwd, keys, inst)
    <3>1. PICK id \in keys, skipped \in SUBSET keys :
            /\ Closes(id, cwd)
            /\ sessions' = [sessions EXCEPT ![id] = None]
            /\ instance' = [inst EXCEPT ![sessions[id]].phase = "closing"]
            /\ calls' = [calls EXCEPT ![c] = [Idle EXCEPT !.op = "delete", !.id = id,
                          !.inst = sessions[id], !.arg = cwd,
                          !.keys = keys \ ({id} \cup skipped)]]
            /\ UNCHANGED <<store, displaced>>
      BY <2>2 DEF DeleteCloses
    <3> DEFINE a == sessions[id]
    <3>2. id \in Ids /\ a \in Instances /\ instance[a].phase = "open" /\ instance[a].id = id
      BY <3>1 DEF Closes, TypeOK, LoadedIsOpen, Loaded
    <3>3. calls'[c].op = "delete" /\ \A d \in Requests \ {c} : calls'[d] = calls[d]
      BY <3>1 DEF Idle, TypeOK
    <3>4. /\ sessions'[id] = None
          /\ \A i \in Ids \ {id} : sessions'[i] = sessions[i]
      BY <3>1, <3>2 DEF TypeOK
    <3>5. instance' = [inst EXCEPT ![a].phase = "closing"] /\ UNCHANGED <<store, displaced>>
      BY <3>1
    <3>6. \A b \in Instances \ {a} : instance[b].phase = "open" =>
             instance[b].id # id \/ b \in displaced
      BY DEF KInv, OpenIsLoaded
    <3> HIDE DEF a
    <3>7. /\ instance'[a].phase = "closing" /\ (instance'[a].drifted <=> inst[a].drifted)
          /\ instance'[a].model = inst[a].model /\ instance'[a].id = inst[a].id
          /\ \A b \in Instances \ {a} : instance'[b] = inst[b]
      BY <3>2, <3>5 DEF Instance
    <3>8. \A d \in Requests : calls'[d] = calls[d]
             \/ (calls'[d].op \notin Opening \cup Working /\ calls[d].op # "modelSet")
      BY <1>13, <3>3 DEF Opening, Working
    <3>9. \A b \in Instances \ {a} : instance[b].phase = "open" =>
             instance[b].id \in Ids /\ (instance[b].id # id \/ b \in displaced)
      BY <3>6 DEF IInv, OpenHasId
    <3>10. \A b \in Instances :
              /\ instance'[b].model = instance[b].model /\ instance'[b].id = instance[b].id
              /\ instance'[b].drifted <=> instance[b].drifted
              /\ instance[b].phase \in {"open", "closing", "closed"}
                    => instance'[b].phase \in {"open", "closing", "closed"}
              /\ instance'[b].phase = "open" =>
                    /\ instance[b].phase = "open"
                    /\ sessions'[instance[b].id] = sessions[instance[b].id] \/ b \in displaced
      BY <1>13, <3>2, <3>4, <3>7, <3>9
    <3> QED BY <3>2, <3>4, <3>5, <3>8, <3>10, AgreementKept
  <2> QED BY <1>13, <2>1, <2>2
<1>14. ASSUME NEW c \in Requests, NEW cwd \in Cwds \cup {None}, DeleteProject(c, cwd)
       PROVE  KInv'
  <2>1. calls[c].op = "idle" /\ instance \in [Instances -> Instance] /\ Loaded \in SUBSET Ids
    BY <1>14 DEF DeleteProject, CanStart, TypeOK, Loaded
  <2> QED BY <1>13, <1>14, <2>1 DEF DeleteProject
<1>15. ASSUME NEW c \in Requests, DeleteContinues(c) PROVE KInv'
  <2> DEFINE z == calls[c].inst
             inst == SetPhase(z, "closed")
  <2>1. /\ z \in Instances /\ instance[z].phase \in {"closing", "closed"}
        /\ calls[c].keys \in SUBSET Ids /\ calls[c].op = "delete"
    BY <1>15 DEF DeleteContinues, Resumes, CallsOK, CallOK, TypeOK, Call
  <2>2. \/ DeleteCloses(c, calls[c].arg, calls[c].keys, inst)
        \/ DeleteEnds(c, calls[c].arg, calls[c].keys, inst)
    BY <1>15 DEF DeleteContinues
  <2> HIDE DEF z
  <2>3. /\ inst \in [Instances -> Instance] /\ inst[z].phase = "closed"
        /\ \A b \in Instances : /\ b # z => inst[b] = instance[b]
                                /\ inst[b].model = instance[b].model /\ inst[b].id = instance[b].id
                                /\ inst[b].drifted <=> instance[b].drifted
    BY <2>1, SetPhaseType DEF Phases
  <2> HIDE DEF inst
  <2> QED BY <1>13, <2>1, <2>2, <2>3
<1>16. CASE Shutdown
  <2>1. \A b \in Instances :
            /\ instance'[b].model = instance[b].model /\ instance'[b].id = instance[b].id
            /\ instance'[b].drifted <=> instance[b].drifted
            /\ instance'[b].phase = instance[b].phase \/ instance'[b].phase = "closing"
    BY <1>16 DEF Shutdown, TypeOK, Instance
  <2>2. \A b \in Instances : instance'[b].phase = "open" =>
            instance[b].phase = "open" /\ b \in displaced
    <3>1. \A b \in Instances : instance[b].phase = "open" =>
              \/ b \in displaced
              \/ instance[b].id \in Loaded /\ sessions[instance[b].id] = b
      BY ConstantsAssumption DEF KInv, OpenIsLoaded, IInv, OpenHasId, Loaded
    <3> QED BY <1>16, <3>1 DEF Shutdown, TypeOK, Instance
  <2>3. \A b \in Instances : instance[b].phase \in {"open", "closing", "closed"}
            => instance'[b].phase \in {"open", "closing", "closed"}
    BY <2>1
  <2>4. (\A i \in Ids : sessions'[i] = None) /\ UNCHANGED <<store, calls, displaced>>
    BY <1>16 DEF Shutdown
  <2> QED BY <2>1, <2>2, <2>3, <2>4, AgreementKept
<1>17. ASSUME NEW a \in Instances, ShutdownClosed(a) PROVE KInv'
  <2>1. instance[a].phase \in {"closing", "closed"}
    BY <1>17 DEF ShutdownClosed, IInv, DrainingClosed
  <2>2. /\ instance'[a].phase = "closed"
        /\ \A b \in Instances : /\ instance'[b].model = instance[b].model
                                /\ instance'[b].id = instance[b].id
                                /\ instance'[b].drifted <=> instance[b].drifted
                                /\ b # a => instance'[b] = instance[b]
    BY <1>17, SetPhaseType DEF ShutdownClosed, Phases
  <2>3. UNCHANGED <<sessions, store, calls, displaced>>
    BY <1>17 DEF ShutdownClosed
  <2> QED BY <2>1, <2>2, <2>3, AgreementKept
<1>18. CASE Exit
  BY <1>18, AgreementKept DEF Exit
<1> QED
  BY <1>0, <1>2, <1>3, <1>4, <1>5, <1>6, <1>7, <1>8, <1>9, <1>10, <1>11, <1>12, <1>14,
     <1>15, <1>16, <1>17, <1>18, <1>19, <1>20
     DEF Next, Request, Continue

LEMMA AgreementInvariant == Spec => []KInv
<1>1. IInv /\ KInv /\ [Next]_vars => KInv'
  BY AgreementStep
<1> QED BY <1>1, InitKInv, IInvInvariant, PTL DEF Spec

\* TurnReachable: prompt took the instance from the map, and nothing but a
\* second resume takes its place there before it is being closed.
THEOREM TurnReachableAlways == Spec => []TurnReachable
<1>1. IInv /\ KInv => TurnReachable
  BY DEF IInv, KInv, CallsOK, CallOK, OpenIsLoaded, OnOwnId, TurnReachable, Working
<1> QED BY <1>1, AgreementInvariant, IInvInvariant, PTL

\* ModelPersisted: setModel writes the row of the session whose agent accepted
\* the model, also when the session was closed and another opened while the
\* agent thought about it; a change that times out leaves a trace in `drifted`.
THEOREM ModelPersistedAlways == Spec => []ModelPersisted
<1>1. KInv => ModelPersisted
  BY DEF KInv
<1> QED BY <1>1, AgreementInvariant, PTL

=============================================================================
