------------------------- MODULE AdminSettingsProofs -------------------------
(***************************************************************************)
(* Settings, restarts and starts, for any number of folders, ports and     *)
(* values, and of administrators at work at the same time.                 *)
(***************************************************************************)
EXTENDS AdminSettings, TLAPS

USE DEF views, request, control, process, account, settingsVars, Step, RequestsUnchanged

-----------------------------------------------------------------------------
(* The restart channel.                                                    *)

\* Every step keeps one claim at most, and a flag that covers it.
LEMMA NextRestartInv ==
  ASSUME pc \in [Admins -> AdminSteps], RestartInv, [Next]_settingsVars
  PROVE  RestartInv'
<1> USE DEF RestartInv, RestartHasRoom
<1>1. ASSUME NEW a \in Admins, UpdateBegin(a) PROVE RestartInv'
  BY <1>1 DEF UpdateBegin, Goto, Mix
<1>2. ASSUME NEW a \in Admins, DirKept(a) PROVE RestartInv'
  BY <1>2 DEF DirKept, Goto
<1>3. ASSUME NEW a \in Admins, NEW d \in Dirs, DirChanges(a, d) PROVE RestartInv'
  BY <1>3 DEF DirChanges, Goto
<1>4. ASSUME NEW a \in Admins, UpdateStorage(a) PROVE RestartInv'
  BY <1>4 DEF UpdateStorage, AfterStorage, Goto, Mix
<1>5. ASSUME NEW a \in Admins, SetRoot(a) PROVE RestartInv'
  BY <1>5 DEF SetRoot, Goto
<1>6. ASSUME NEW a \in Admins, SetSharedDir(a) PROVE RestartInv'
  BY <1>6 DEF SetSharedDir, Goto
<1>7. ASSUME NEW a \in Admins, NEW v \in Ports \cup Streams \cup Sizes \cup Maxima, SetScalar(a, v)
      PROVE  RestartInv'
  BY <1>7 DEF SetScalar, AfterScalar, Scalars, Values, Goto
<1>8. ASSUME NEW a \in Admins, UpdateRefused(a) PROVE RestartInv'
  BY <1>8 DEF UpdateRefused, Reply, Goto
<1>9. ASSUME NEW a \in Admins, ReadMax(a) PROVE RestartInv'
  BY <1>9 DEF ReadMax, Goto
<1>10. ASSUME NEW a \in Admins, ReadChunk(a) PROVE RestartInv'
  BY <1>10 DEF ReadChunk, Goto
<1>11. ASSUME NEW a \in Admins, UpdateLimits(a) PROVE RestartInv'
  BY <1>11 DEF UpdateLimits, Goto
<1>12. ASSUME NEW a \in Admins, SaveSnapshot(a) PROVE RestartInv'
  BY <1>12 DEF SaveSnapshot, Goto
<1>13. ASSUME NEW a \in Admins, SaveOpen(a) PROVE RestartInv'
  BY <1>13 DEF SaveOpen, Goto, Mix
<1>14. ASSUME NEW a \in Admins, SaveOpenFails(a) PROVE RestartInv'
  BY <1>14 DEF SaveOpenFails, Reply, Goto
<1>15. ASSUME NEW a \in Admins, SaveWrite(a) PROVE RestartInv'
  BY <1>15 DEF SaveWrite, Written, Reply, Goto
<1>16. ASSUME NEW a \in Admins, SaveWriteFails(a) PROVE RestartInv'
  BY <1>16 DEF SaveWriteFails, Reply, Goto
<1>17. ASSUME NEW a \in Admins, RestartClaim(a) PROVE RestartInv'
  BY <1>17 DEF RestartClaim, MayClaim, Goto
<1>18. ASSUME NEW a \in Admins, RestartSend(a) PROVE RestartInv'
  BY <1>18 DEF RestartSend, Goto
<1>19. CASE TransferBegins
  BY <1>19 DEF TransferBegins
<1>20. CASE TransferEnds
  BY <1>20 DEF TransferEnds
<1>21. CASE Load
  BY <1>21 DEF Load, Loaded
<1>22. CASE Create
  BY <1>22 DEF Create, BootOpen
<1>23. CASE CreateWrite
  BY <1>23 DEF CreateWrite, BootWrite
<1>24. ASSUME NEW p \in Ports, Bind(p) PROVE RestartInv'
  BY <1>24 DEF Bind
<1>25. CASE BindSave
  BY <1>25 DEF BindSave, BootOpen
<1>26. CASE BindWrite
  BY <1>26 DEF BindWrite, BootWrite
<1>27. CASE BootSaveFails
  BY <1>27 DEF BootSaveFails
<1>28. CASE RestartTaken
  BY <1>28 DEF RestartTaken
<1>29. CASE DrainDone
  BY <1>29 DEF DrainDone, Busy
<1>30. CASE DrainExpires
  BY <1>30 DEF DrainExpires, Patience, Busy, ProcessEnds
<1>31. CASE Exec
  BY <1>31 DEF Exec, ProcessEnds
<1>32. CASE StopTaken
  BY <1>32 DEF StopTaken
<1>33. CASE StepFails
  BY <1>33 DEF StepFails, ProcessEnds
<1>34. CASE Crash
  BY <1>34 DEF Crash, ProcessEnds
<1>35. CASE Start
  BY <1>35 DEF Start, ProcessEnds
<1>36. CASE Off
  BY <1>36 DEF Off
<1>37. CASE UNCHANGED settingsVars
  BY <1>37
<1> QED
  BY <1>1, <1>2, <1>3, <1>4, <1>5, <1>6, <1>7, <1>8, <1>9, <1>10, <1>11,
     <1>12, <1>13, <1>14, <1>15, <1>16, <1>17, <1>18, <1>19, <1>20, <1>21,
     <1>22, <1>23, <1>24, <1>25, <1>26, <1>27, <1>28, <1>29, <1>30, <1>31,
     <1>32, <1>33, <1>34, <1>35, <1>36, <1>37
     DEF Next, Update, Boot, Leave

-----------------------------------------------------------------------------
(* Types.                                                                  *)

\* The defaults are settings, the marks for other contents of config.json are not.
LEMMA ConstantFacts ==
  /\ Defaults \in Settings /\ Defaults.dir \in Dirs
  /\ Missing \notin Settings /\ Malformed \notin Settings /\ Missing # Malformed
  /\ Editors \subseteq Admins
  BY SettingsAssumption DEF Settings

\* The answer to a settings request keeps the types.
LEMMA ReplyTypes ==
  ASSUME TypeOK, NEW a \in Admins, NEW ok \in BOOLEAN, Reply(a, ok)
  PROVE  /\ pc' \in [Admins -> AdminSteps] /\ dir' \in [Admins -> Dirs]
         /\ limits' \in [Admins -> [max : Maxima \cup {0}, chunk : Sizes \cup {0}]]
         /\ snap' \in [Admins -> Settings] /\ accepted' \in BOOLEAN
<1>1. pc' \in [Admins -> AdminSteps]
  BY DEF Reply, Goto, TypeOK, AdminSteps
<1>2. dir' \in [Admins -> Dirs]
  BY ConstantFacts DEF Reply, TypeOK
<1>3. limits' \in [Admins -> [max : Maxima \cup {0}, chunk : Sizes \cup {0}]]
  BY DEF Reply, TypeOK, NoLimits
<1>4. snap' \in [Admins -> Settings] /\ accepted' \in BOOLEAN
  BY ConstantFacts DEF Reply, TypeOK
<1> QED
  BY <1>1, <1>2, <1>3, <1>4

\* Every step keeps the types.
LEMMA NextTypes == ASSUME TypeOK, [Next]_settingsVars PROVE TypeOK'
<1> USE ConstantFacts DEF TypeOK, NoLimits, LimitsOf, Settings,
      AdminSteps, EditSteps, SaveSteps, Scalars, MainSteps, BootSteps, DrainSteps
<1>1. ASSUME NEW a \in Admins, UpdateBegin(a) PROVE TypeOK'
  <2>1. pc' \in [Admins -> AdminSteps]
    BY <1>1 DEF UpdateBegin, Goto
  <2>2. mixed' \subseteq {"settings", "folder", "file"} /\ accepted' \in BOOLEAN
    BY <1>1 DEF UpdateBegin, Mix
  <2> QED
    BY <1>1, <2>1, <2>2 DEF UpdateBegin
<1>2. ASSUME NEW a \in Admins, DirKept(a) PROVE TypeOK'
  BY <1>2 DEF DirKept, Goto
<1>3. ASSUME NEW a \in Admins, NEW d \in Dirs, DirChanges(a, d) PROVE TypeOK'
  BY <1>3 DEF DirChanges, Goto
<1>4. ASSUME NEW a \in Admins, UpdateStorage(a) PROVE TypeOK'
  BY <1>4 DEF UpdateStorage, AfterStorage, Goto, Mix
<1>5. ASSUME NEW a \in Admins, SetRoot(a) PROVE TypeOK'
  BY <1>5 DEF SetRoot, Goto
<1>6. ASSUME NEW a \in Admins, SetSharedDir(a) PROVE TypeOK'
  <2>1. settings' \in Settings
    BY <1>6 DEF SetSharedDir
  <2>2. pc' \in [Admins -> AdminSteps] /\ dir' \in [Admins -> Dirs]
    BY <1>6 DEF SetSharedDir, Goto
  <2> QED
    BY <1>6, <2>1, <2>2 DEF SetSharedDir
<1>7. ASSUME NEW a \in Admins, NEW v \in Ports \cup Streams \cup Sizes \cup Maxima, SetScalar(a, v)
      PROVE  TypeOK'
  BY <1>7, SMTT(30) DEF SetScalar, AfterScalar, Scalars, Values, Goto
<1>8. ASSUME NEW a \in Admins, UpdateRefused(a) PROVE TypeOK'
  <2>1. Reply(a, FALSE) /\ FALSE \in BOOLEAN
    BY <1>8 DEF UpdateRefused
  <2>2. /\ pc' \in [Admins -> AdminSteps] /\ dir' \in [Admins -> Dirs]
        /\ limits' \in [Admins -> [max : Maxima \cup {0}, chunk : Sizes \cup {0}]]
        /\ snap' \in [Admins -> Settings] /\ accepted' \in BOOLEAN
    BY <2>1, ReplyTypes
  <2> QED
    BY <1>8, <2>2 DEF UpdateRefused
<1>9. ASSUME NEW a \in Admins, ReadMax(a) PROVE TypeOK'
  <2>1. limits' \in [Admins -> [max : Maxima \cup {0}, chunk : Sizes \cup {0}]]
    <3>1. settings.max \in Maxima
      OBVIOUS
    <3>2. [limits[a] EXCEPT !.max = settings.max]
            \in [max : Maxima \cup {0}, chunk : Sizes \cup {0}]
      BY <3>1
    <3> QED
      BY <1>9, <3>2 DEF ReadMax
  <2>2. pc' \in [Admins -> AdminSteps]
    BY <1>9 DEF ReadMax, Goto
  <2> QED
    BY <1>9, <2>1, <2>2 DEF ReadMax
<1>10. ASSUME NEW a \in Admins, ReadChunk(a) PROVE TypeOK'
  BY <1>10 DEF ReadChunk, Goto
<1>11. ASSUME NEW a \in Admins, UpdateLimits(a) PROVE TypeOK'
  BY <1>11 DEF UpdateLimits, Goto
<1>12. ASSUME NEW a \in Admins, SaveSnapshot(a) PROVE TypeOK'
  BY <1>12 DEF SaveSnapshot, Goto
<1>13. ASSUME NEW a \in Admins, SaveOpen(a) PROVE TypeOK'
  BY <1>13 DEF SaveOpen, Goto, Mix
<1>14. ASSUME NEW a \in Admins, SaveOpenFails(a) PROVE TypeOK'
  <2>1. Reply(a, FALSE) /\ FALSE \in BOOLEAN
    BY <1>14 DEF SaveOpenFails
  <2>2. /\ pc' \in [Admins -> AdminSteps] /\ dir' \in [Admins -> Dirs]
        /\ limits' \in [Admins -> [max : Maxima \cup {0}, chunk : Sizes \cup {0}]]
        /\ snap' \in [Admins -> Settings] /\ accepted' \in BOOLEAN
    BY <2>1, ReplyTypes
  <2> QED
    BY <1>14, <2>2 DEF SaveOpenFails
<1>15. ASSUME NEW a \in Admins, SaveWrite(a) PROVE TypeOK'
  <2>1. file' \in Settings \cup {Missing, Malformed} /\ saved' \in Settings
    BY <1>15 DEF SaveWrite, Written
  <2>2. Reply(a, TRUE) /\ TRUE \in BOOLEAN
    BY <1>15 DEF SaveWrite
  <2>3. /\ pc' \in [Admins -> AdminSteps] /\ dir' \in [Admins -> Dirs]
        /\ limits' \in [Admins -> [max : Maxima \cup {0}, chunk : Sizes \cup {0}]]
        /\ snap' \in [Admins -> Settings] /\ accepted' \in BOOLEAN
    BY <2>2, ReplyTypes
  <2>4. UNCHANGED <<views, control, process, mixed>> /\ cutOff' \in BOOLEAN
    BY <1>15 DEF SaveWrite
  <2> QED
    BY <2>1, <2>3, <2>4
<1>16. ASSUME NEW a \in Admins, SaveWriteFails(a) PROVE TypeOK'
  <2>1. Reply(a, FALSE) /\ FALSE \in BOOLEAN
    BY <1>16 DEF SaveWriteFails
  <2>2. /\ pc' \in [Admins -> AdminSteps] /\ dir' \in [Admins -> Dirs]
        /\ limits' \in [Admins -> [max : Maxima \cup {0}, chunk : Sizes \cup {0}]]
        /\ snap' \in [Admins -> Settings] /\ accepted' \in BOOLEAN
    BY <2>1, ReplyTypes
  <2> QED
    BY <1>16, <2>2 DEF SaveWriteFails
<1>17. ASSUME NEW a \in Admins, RestartClaim(a) PROVE TypeOK'
  BY <1>17 DEF RestartClaim, MayClaim, Goto
<1>18. ASSUME NEW a \in Admins, RestartSend(a) PROVE TypeOK'
  <2>1. flag' \in BOOLEAN /\ restartCh' \in BOOLEAN
    BY <1>18 DEF RestartSend
  <2>2. pc' \in [Admins -> AdminSteps]
    BY <1>18 DEF RestartSend, Goto
  <2> QED
    BY <1>18, <2>1, <2>2 DEF RestartSend
<1>19. CASE TransferBegins
  BY <1>19 DEF TransferBegins
<1>20. CASE TransferEnds
  <2>1. transfer' \in BOOLEAN
    BY <1>20 DEF TransferEnds
  <2> QED
    BY <1>20, <2>1 DEF TransferEnds
<1>21. CASE Load
  BY <1>21 DEF Load, Loaded
<1>22. CASE Create
  BY <1>22 DEF Create, BootOpen
<1>23. CASE CreateWrite
  BY <1>23 DEF CreateWrite, BootWrite
<1>24. ASSUME NEW p \in Ports, Bind(p) PROVE TypeOK'
  BY <1>24 DEF Bind
<1>25. CASE BindSave
  BY <1>25 DEF BindSave, BootOpen
<1>26. CASE BindWrite
  BY <1>26 DEF BindWrite, BootWrite
<1>27. CASE BootSaveFails
  BY <1>27 DEF BootSaveFails
<1>28. CASE RestartTaken
  BY <1>28, ZenonT(40) DEF RestartTaken
<1>29. CASE DrainDone
  BY <1>29 DEF DrainDone, Busy
<1>30. CASE DrainExpires
  BY <1>30 DEF DrainExpires, Patience, Busy, ProcessEnds
<1>31. CASE Exec
  <2>1. boots' \in 1 .. MaxBoots
    BY <1>31, SettingsAssumption DEF Exec
  <2>2. /\ pc' \in [Admins -> AdminSteps] /\ dir' \in [Admins -> Dirs]
        /\ snap' \in [Admins -> Settings]
    BY <1>31 DEF Exec, ProcessEnds
  <2>3. limits' \in [Admins -> [max : Maxima \cup {0}, chunk : Sizes \cup {0}]]
    BY <1>31 DEF Exec, ProcessEnds
  <2> QED
    BY <1>31, <2>1, <2>2, <2>3 DEF Exec, ProcessEnds
<1>32. CASE StopTaken
  BY <1>32 DEF StopTaken
<1>33. CASE StepFails
  BY <1>33 DEF StepFails, ProcessEnds
<1>34. CASE Crash
  BY <1>34 DEF Crash, ProcessEnds
<1>35. CASE Start
  <2>1. boots' \in 1 .. MaxBoots
    BY <1>35, SettingsAssumption DEF Start
  <2>2. /\ pc' \in [Admins -> AdminSteps] /\ dir' \in [Admins -> Dirs]
        /\ snap' \in [Admins -> Settings]
    BY <1>35 DEF Start, ProcessEnds
  <2>3. limits' \in [Admins -> [max : Maxima \cup {0}, chunk : Sizes \cup {0}]]
    BY <1>35 DEF Start, ProcessEnds
  <2> QED
    BY <1>35, <2>1, <2>2, <2>3 DEF Start, ProcessEnds
<1>36. CASE Off
  BY <1>36 DEF Off
<1>37. CASE UNCHANGED settingsVars
  BY <1>37
<1> QED
  BY <1>1, <1>2, <1>3, <1>4, <1>5, <1>6, <1>7, <1>8, <1>9, <1>10, <1>11,
     <1>12, <1>13, <1>14, <1>15, <1>16, <1>17, <1>18, <1>19, <1>20, <1>21,
     <1>22, <1>23, <1>24, <1>25, <1>26, <1>27, <1>28, <1>29, <1>30, <1>31,
     <1>32, <1>33, <1>34, <1>35, <1>36, <1>37
     DEF Next, Update, Boot, Leave

\* The initial states have the types, and no claim.
LEMMA InitTypes == Init => TypeOK /\ RestartInv
<1> USE ConstantFacts, SettingsAssumption DEF Init
<1>1. Init => pc \in [Admins -> AdminSteps] /\ main \in MainSteps /\ boots \in 1 .. MaxBoots
  BY DEF AdminSteps, MainSteps, BootSteps
<1>2. Init => RestartInv
  BY DEF RestartInv, RestartHasRoom
<1>3. Init => /\ limits \in [Admins -> [max : Maxima \cup {0}, chunk : Sizes \cup {0}]]
              /\ uploadLimits \in [max : Maxima \cup {0}, chunk : Sizes \cup {0}]
  BY DEF NoLimits
<1>4. Init => dir \in [Admins -> Dirs] /\ snap \in [Admins -> Settings]
  OBVIOUS
<1> QED
  BY <1>1, <1>2, <1>3, <1>4 DEF TypeOK

\* All variables keep their types.
THEOREM TypesKept == Spec => []TypeOK
  BY InitTypes, NextTypes, PTL DEF Spec

\* The flag and the channel of a restart agree in every state
\* (server.go:76-88).
LEMMA RestartInvKept == Spec => []RestartInv
<1>1. TypeOK /\ RestartInv /\ [Next]_settingsVars => RestartInv'
  BY NextRestartInv DEF TypeOK
<1> QED
  BY InitTypes, TypesKept, <1>1, PTL DEF Spec

\* The send on the restart channel never takes its default branch, however
\* many requests ask for a restart at once (server.go:76-88).
THEOREM RestartRoom == Spec => []RestartHasRoom
<1>1. RestartInv => RestartHasRoom
  BY DEF RestartInv
<1> QED
  BY RestartInvKept, <1>1, PTL

-----------------------------------------------------------------------------
(* Settings requests, one at a time or mixed.                              *)

\* Every step keeps the progress of all requests, and what they leave, consistent.
LEMMA NextEditorsInv ==
  ASSUME EditorsInv, TypeOK', [Next]_settingsVars
  PROVE  EditorsInv'
<1> USE ConstantFacts DEF EditorsInv, Quiet, Up, EditSteps, SaveSteps, Scalars, DrainSteps,
      BootSteps, Others
<1>1. ASSUME NEW a \in Admins, UpdateBegin(a) PROVE EditorsInv'
  <2> USE <1>1 DEF UpdateBegin, Goto, Mix
  <2>1. WhoEdits'
    BY DEF WhoEdits, TypeOK
  <2>2. FolderProgress'
    BY DEF FolderProgress, TypeOK, Settings
  <2>3. SaveProgress'
    BY DEF SaveProgress, TypeOK, LimitsOf, Settings
  <2>4. WriterAlone'
    BY DEF WriterAlone, TypeOK
  <2>5. AnsweredInForce'
    BY DEF AnsweredInForce, TypeOK, LimitsOf, Settings
  <2>6. MalformedExplained'
    BY DEF MalformedExplained, TypeOK
  <2> QED
    BY <2>1, <2>2, <2>3, <2>4, <2>5, <2>6 DEF FileSaved
<1>2. ASSUME NEW a \in Admins, DirKept(a) PROVE EditorsInv'
  <2> USE <1>2 DEF DirKept, Goto
  <2>1. WhoEdits'
    BY DEF WhoEdits, TypeOK
  <2>2. FolderProgress'
    BY DEF FolderProgress, TypeOK, Settings
  <2>3. SaveProgress'
    BY DEF SaveProgress, TypeOK, LimitsOf, Settings
  <2>4. WriterAlone'
    BY DEF WriterAlone, TypeOK
  <2>5. MalformedExplained'
    BY DEF MalformedExplained, TypeOK
  <2> QED
    BY <2>1, <2>2, <2>3, <2>4, <2>5 DEF FileSaved, AnsweredInForce
<1>3. ASSUME NEW a \in Admins, NEW d \in Dirs, DirChanges(a, d) PROVE EditorsInv'
  <2> USE <1>3 DEF DirChanges, Goto
  <2>1. WhoEdits'
    BY DEF WhoEdits, TypeOK
  <2>2. FolderProgress'
    BY DEF FolderProgress, TypeOK, Settings
  <2>3. SaveProgress'
    BY DEF SaveProgress, TypeOK, LimitsOf, Settings
  <2>4. WriterAlone'
    BY DEF WriterAlone, TypeOK
  <2>5. MalformedExplained'
    BY DEF MalformedExplained, TypeOK
  <2> QED
    BY <2>1, <2>2, <2>3, <2>4, <2>5 DEF FileSaved, AnsweredInForce
<1>4. ASSUME NEW a \in Admins, UpdateStorage(a) PROVE EditorsInv'
  <2> USE <1>4 DEF UpdateStorage, AfterStorage, Goto, Mix
  <2>1. WhoEdits'
    BY DEF WhoEdits, TypeOK
  <2>2. FolderProgress'
    <3>1. SUFFICES ASSUME "folder" \notin mixed' PROVE FolderProgress'
      BY DEF FolderProgress
    <3>2. Others(a, {"root", "set_dir"}) = {}
      BY <3>1
    <3>3. a \in Editors /\ \A b \in Editors \ {a} : pc'[b] \notin {"root", "set_dir"}
      BY <3>2 DEF WhoEdits, TypeOK
    <3>4. /\ pc'[a] = "root" /\ uploadRoot' = dir'[a]
      BY DEF TypeOK
    <3> QED
      BY <3>3, <3>4 DEF FolderProgress
  <2>3. SaveProgress'
    BY DEF SaveProgress, TypeOK, LimitsOf, Settings
  <2>4. WriterAlone'
    BY DEF WriterAlone, TypeOK
  <2>5. MalformedExplained'
    BY DEF MalformedExplained, TypeOK
  <2> QED
    BY <2>1, <2>2, <2>3, <2>4, <2>5 DEF FileSaved, AnsweredInForce
<1>5. ASSUME NEW a \in Admins, SetRoot(a) PROVE EditorsInv'
  <2> USE <1>5 DEF SetRoot, Goto
  <2>1. WhoEdits'
    BY DEF WhoEdits, TypeOK
  <2>2. FolderProgress'
    <3>1. SUFFICES ASSUME "folder" \notin mixed PROVE FolderProgress'
      BY DEF FolderProgress
    <3>2. main \in {"serving"} \cup DrainSteps /\ a \in Editors
      BY DEF WhoEdits
    <3>3. uploadRoot = dir[a] /\ \A b \in Editors \ {a} : pc[b] \notin {"root", "set_dir"}
      BY <3>1, <3>2 DEF FolderProgress
    <3> QED
      BY <3>1, <3>2, <3>3 DEF FolderProgress, TypeOK
  <2>3. SaveProgress'
    BY DEF SaveProgress, TypeOK, LimitsOf, Settings
  <2>4. WriterAlone'
    BY DEF WriterAlone, TypeOK
  <2>5. MalformedExplained'
    BY DEF MalformedExplained, TypeOK
  <2> QED
    BY <2>1, <2>2, <2>3, <2>4, <2>5 DEF FileSaved, AnsweredInForce
<1>6. ASSUME NEW a \in Admins, SetSharedDir(a) PROVE EditorsInv'
  <2> USE <1>6 DEF SetSharedDir, Goto
  <2>0. "settings" \notin mixed => ~accepted /\ \A b \in Editors \ {a} : pc[b] \notin EditSteps
    BY DEF WhoEdits
  <2>1. WhoEdits'
    BY DEF WhoEdits, TypeOK
  <2>2. FolderProgress'
    <3>1. SUFFICES ASSUME "folder" \notin mixed PROVE FolderProgress'
      BY DEF FolderProgress
    <3>2. main \in {"serving"} \cup DrainSteps /\ a \in Editors
      BY DEF WhoEdits
    <3>3. /\ uploadRoot = dir[a] /\ shareRoot = dir[a]
          /\ \A b \in Editors \ {a} : pc[b] \notin {"root", "set_dir"}
      BY <3>1, <3>2 DEF FolderProgress
    <3>4. settings'.dir = dir[a] /\ \A b \in Editors : pc'[b] \notin {"root", "set_dir"}
      BY <3>2, <3>3 DEF TypeOK, Settings
    <3> QED
      BY <3>1, <3>3, <3>4 DEF FolderProgress
  <2>3. SaveProgress'
    BY <2>0 DEF SaveProgress, TypeOK, LimitsOf, Settings
  <2>4. WriterAlone'
    BY DEF WriterAlone, TypeOK
  <2>5. AnsweredInForce'
    BY <2>0 DEF AnsweredInForce, TypeOK
  <2>6. MalformedExplained'
    BY DEF MalformedExplained, TypeOK
  <2> QED
    BY <2>1, <2>2, <2>3, <2>4, <2>5, <2>6 DEF FileSaved
<1>7. ASSUME NEW a \in Admins, NEW v \in Ports \cup Streams \cup Sizes \cup Maxima, SetScalar(a, v)
      PROVE  EditorsInv'
  <2> USE <1>7 DEF SetScalar, AfterScalar, Values, Goto
  <2>0. "settings" \notin mixed => ~accepted /\ \A b \in Editors \ {a} : pc[b] \notin EditSteps
    BY DEF WhoEdits
  <2>1. WhoEdits'
    BY DEF WhoEdits, TypeOK
  <2>2. FolderProgress'
    BY DEF FolderProgress, TypeOK, Settings
  <2>3. SaveProgress'
    BY <2>0 DEF SaveProgress, TypeOK, LimitsOf, Settings
  <2>4. WriterAlone'
    BY DEF WriterAlone, TypeOK
  <2>5. AnsweredInForce'
    BY <2>0 DEF AnsweredInForce, TypeOK
  <2>6. MalformedExplained'
    BY DEF MalformedExplained, TypeOK
  <2> QED
    BY <2>1, <2>2, <2>3, <2>4, <2>5, <2>6 DEF FileSaved
<1>8. ASSUME NEW a \in Admins, UpdateRefused(a) PROVE EditorsInv'
  <2> USE <1>8 DEF UpdateRefused, Reply, Goto
  <2>1. WhoEdits'
    BY DEF WhoEdits, TypeOK
  <2>2. FolderProgress'
    BY DEF FolderProgress, TypeOK, Settings
  <2>3. SaveProgress'
    BY DEF SaveProgress, TypeOK, LimitsOf, Settings
  <2>4. WriterAlone'
    BY DEF WriterAlone, TypeOK
  <2>5. AnsweredInForce'
    BY DEF AnsweredInForce, TypeOK, LimitsOf, Settings
  <2>6. MalformedExplained'
    BY DEF MalformedExplained, TypeOK
  <2> QED
    BY <2>1, <2>2, <2>3, <2>4, <2>5, <2>6 DEF FileSaved
<1>9. ASSUME NEW a \in Admins, ReadMax(a) PROVE EditorsInv'
  <2> USE <1>9 DEF ReadMax, Goto
  <2>1. WhoEdits'
    BY DEF WhoEdits, TypeOK
  <2>2. FolderProgress'
    BY DEF FolderProgress, TypeOK, Settings
  <2>3. SaveProgress'
    BY DEF SaveProgress, TypeOK, LimitsOf, Settings
  <2>4. WriterAlone'
    BY DEF WriterAlone, TypeOK
  <2>5. MalformedExplained'
    BY DEF MalformedExplained, TypeOK
  <2> QED
    BY <2>1, <2>2, <2>3, <2>4, <2>5 DEF FileSaved, AnsweredInForce
<1>10. ASSUME NEW a \in Admins, ReadChunk(a) PROVE EditorsInv'
  <2> USE <1>10 DEF ReadChunk, Goto
  <2>1. WhoEdits'
    BY DEF WhoEdits, TypeOK
  <2>2. FolderProgress'
    BY DEF FolderProgress, TypeOK, Settings
  <2>3. SaveProgress'
    BY DEF SaveProgress, TypeOK, LimitsOf, Settings
  <2>4. WriterAlone'
    BY DEF WriterAlone, TypeOK
  <2>5. MalformedExplained'
    BY DEF MalformedExplained, TypeOK
  <2> QED
    BY <2>1, <2>2, <2>3, <2>4, <2>5 DEF FileSaved, AnsweredInForce
<1>11. ASSUME NEW a \in Admins, UpdateLimits(a) PROVE EditorsInv'
  <2> USE <1>11 DEF UpdateLimits, Goto
  <2>0. "settings" \notin mixed => ~accepted /\ \A b \in Editors \ {a} : pc[b] \notin EditSteps
    BY DEF WhoEdits
  <2>1. WhoEdits'
    BY DEF WhoEdits, TypeOK
  <2>2. FolderProgress'
    BY DEF FolderProgress, TypeOK, Settings
  <2>3. SaveProgress'
    BY <2>0 DEF SaveProgress, TypeOK, LimitsOf, Settings
  <2>4. WriterAlone'
    BY DEF WriterAlone, TypeOK
  <2>5. AnsweredInForce'
    BY <2>0 DEF AnsweredInForce, TypeOK
  <2>6. MalformedExplained'
    BY DEF MalformedExplained, TypeOK
  <2> QED
    BY <2>1, <2>2, <2>3, <2>4, <2>5, <2>6 DEF FileSaved
<1>12. ASSUME NEW a \in Admins, SaveSnapshot(a) PROVE EditorsInv'
  <2> USE <1>12 DEF SaveSnapshot, Goto
  <2>1. WhoEdits'
    BY DEF WhoEdits, TypeOK
  <2>2. FolderProgress'
    BY DEF FolderProgress, TypeOK, Settings
  <2>3. SaveProgress'
    BY DEF SaveProgress, TypeOK, LimitsOf, Settings
  <2>4. WriterAlone'
    BY DEF WriterAlone, TypeOK
  <2>5. MalformedExplained'
    BY DEF MalformedExplained, TypeOK
  <2> QED
    BY <2>1, <2>2, <2>3, <2>4, <2>5 DEF FileSaved, AnsweredInForce
<1>13. ASSUME NEW a \in Admins, SaveOpen(a) PROVE EditorsInv'
  <2> USE <1>13 DEF SaveOpen, Goto, Mix
  <2>0. "settings" \notin mixed => ~accepted /\ \A b \in Editors \ {a} : pc[b] \notin EditSteps
    BY DEF WhoEdits
  <2>1. WhoEdits'
    BY DEF WhoEdits, TypeOK
  <2>2. FolderProgress'
    BY DEF FolderProgress, TypeOK, Settings
  <2>3. SaveProgress'
    BY DEF SaveProgress, TypeOK, LimitsOf, Settings
  <2>4. WriterAlone'
    BY DEF WriterAlone, TypeOK
  <2>5. FileSaved'
    BY DEF FileSaved, TypeOK
  <2>6. AnsweredInForce'
    BY <2>0 DEF AnsweredInForce, TypeOK
  <2>7. MalformedExplained'
    BY DEF MalformedExplained, TypeOK
  <2> QED
    BY <2>1, <2>2, <2>3, <2>4, <2>5, <2>6, <2>7
<1>14. ASSUME NEW a \in Admins, SaveOpenFails(a) PROVE EditorsInv'
  <2> USE <1>14 DEF SaveOpenFails, Reply, Goto
  <2>1. WhoEdits'
    BY DEF WhoEdits, TypeOK
  <2>2. FolderProgress'
    BY DEF FolderProgress, TypeOK, Settings
  <2>3. SaveProgress'
    BY DEF SaveProgress, TypeOK, LimitsOf, Settings
  <2>4. WriterAlone'
    BY DEF WriterAlone, TypeOK
  <2>5. AnsweredInForce'
    BY DEF AnsweredInForce, TypeOK, LimitsOf, Settings
  <2>6. MalformedExplained'
    BY DEF MalformedExplained, TypeOK
  <2> QED
    BY <2>1, <2>2, <2>3, <2>4, <2>5, <2>6 DEF FileSaved
<1>15. ASSUME NEW a \in Admins, SaveWrite(a) PROVE EditorsInv'
  <2> USE <1>15 DEF SaveWrite, Written, Reply, Goto
  <2>0. /\ a \in Editors /\ saved' = snap[a] /\ file' \in {snap[a], Malformed}
        /\ "settings" \notin mixed => \A b \in Editors \ {a} : pc[b] \notin EditSteps
        /\ "settings" \notin mixed \/ "file" \notin mixed => file' = snap[a]
    BY DEF WhoEdits, WriterAlone
  <2>1. WhoEdits'
    BY DEF WhoEdits, TypeOK
  <2>2. FolderProgress'
    BY DEF FolderProgress, TypeOK, Settings
  <2>3. SaveProgress'
    BY DEF SaveProgress, TypeOK, LimitsOf, Settings
  <2>4. WriterAlone'
    BY <2>0 DEF WriterAlone, TypeOK
  <2>5. FileSaved'
    BY <2>0 DEF FileSaved, TypeOK
  <2>6. AnsweredInForce'
    BY <2>0 DEF AnsweredInForce, SaveProgress
  <2>7. MalformedExplained'
    BY <2>0 DEF MalformedExplained, TypeOK
  <2> QED
    BY <2>1, <2>2, <2>3, <2>4, <2>5, <2>6, <2>7
<1>16. ASSUME NEW a \in Admins, SaveWriteFails(a) PROVE EditorsInv'
  <2> USE <1>16 DEF SaveWriteFails, Reply, Goto
  <2>1. WhoEdits'
    BY DEF WhoEdits, TypeOK
  <2>2. FolderProgress'
    BY DEF FolderProgress, TypeOK, Settings
  <2>3. SaveProgress'
    BY DEF SaveProgress, TypeOK, LimitsOf, Settings
  <2>4. WriterAlone'
    BY DEF WriterAlone, TypeOK
  <2>5. FileSaved'
    BY DEF FileSaved, TypeOK
  <2>6. AnsweredInForce'
    BY DEF AnsweredInForce, TypeOK, LimitsOf, Settings
  <2>7. MalformedExplained'
    BY DEF MalformedExplained, TypeOK
  <2> QED
    BY <2>1, <2>2, <2>3, <2>4, <2>5, <2>6, <2>7
<1>17. ASSUME NEW a \in Admins, RestartClaim(a) PROVE EditorsInv'
  <2> USE <1>17 DEF RestartClaim, MayClaim, Goto
  <2>1. WhoEdits'
    BY DEF WhoEdits, TypeOK
  <2>2. FolderProgress'
    BY DEF FolderProgress, TypeOK, Settings
  <2>3. SaveProgress'
    BY DEF SaveProgress, TypeOK, LimitsOf, Settings
  <2>4. WriterAlone'
    BY DEF WriterAlone, TypeOK
  <2>5. MalformedExplained'
    BY DEF MalformedExplained, TypeOK
  <2> QED
    BY <2>1, <2>2, <2>3, <2>4, <2>5 DEF FileSaved, AnsweredInForce
<1>18. ASSUME NEW a \in Admins, RestartSend(a) PROVE EditorsInv'
  <2> USE <1>18 DEF RestartSend, Goto
  <2>1. WhoEdits'
    BY DEF WhoEdits, TypeOK
  <2>2. FolderProgress'
    BY DEF FolderProgress, TypeOK, Settings
  <2>3. SaveProgress'
    BY DEF SaveProgress, TypeOK, LimitsOf, Settings
  <2>4. WriterAlone'
    BY DEF WriterAlone, TypeOK
  <2>5. MalformedExplained'
    BY DEF MalformedExplained, TypeOK
  <2> QED
    BY <2>1, <2>2, <2>3, <2>4, <2>5 DEF FileSaved, AnsweredInForce
<1>19. CASE TransferBegins
  BY <1>19 DEF TransferBegins, WhoEdits, FolderProgress, SaveProgress, WriterAlone,
     FileSaved, AnsweredInForce, MalformedExplained
<1>20. CASE TransferEnds
  BY <1>20 DEF TransferEnds, WhoEdits, FolderProgress, SaveProgress, WriterAlone,
     FileSaved, AnsweredInForce, MalformedExplained
<1>21. CASE Load
  <2> USE <1>21 DEF Load, Loaded
  <2>0. ~accepted' /\ \A b \in Admins : pc'[b] = "idle"
    BY DEF WhoEdits, TypeOK
  <2>1. WhoEdits'
    BY DEF WhoEdits, TypeOK
  <2>2. FolderProgress'
    BY <2>0 DEF FolderProgress, TypeOK, Settings
  <2>3. SaveProgress'
    BY <2>0 DEF SaveProgress
  <2>4. WriterAlone'
    BY <2>0 DEF WriterAlone
  <2>5. AnsweredInForce'
    BY <2>0 DEF AnsweredInForce
  <2>6. MalformedExplained'
    BY DEF MalformedExplained, TypeOK
  <2> QED
    BY <2>1, <2>2, <2>3, <2>4, <2>5, <2>6 DEF FileSaved
<1>22. CASE Create
  <2> USE <1>22 DEF Create, BootOpen
  <2>0. ~accepted' /\ \A b \in Admins : pc'[b] = "idle"
    BY DEF WhoEdits, TypeOK
  <2>1. WhoEdits'
    BY DEF WhoEdits, TypeOK
  <2>2. FolderProgress'
    BY <2>0 DEF FolderProgress, TypeOK, Settings
  <2>3. SaveProgress'
    BY <2>0 DEF SaveProgress
  <2>4. WriterAlone'
    BY <2>0 DEF WriterAlone
  <2>5. FileSaved'
    BY DEF FileSaved, TypeOK
  <2>6. AnsweredInForce'
    BY <2>0 DEF AnsweredInForce
  <2>7. MalformedExplained'
    BY DEF MalformedExplained, TypeOK
  <2> QED
    BY <2>1, <2>2, <2>3, <2>4, <2>5, <2>6, <2>7
<1>23. CASE CreateWrite
  <2> USE <1>23 DEF CreateWrite, BootWrite
  <2>0. ~accepted' /\ \A b \in Admins : pc'[b] = "idle"
    BY DEF WhoEdits, TypeOK
  <2>1. WhoEdits'
    BY DEF WhoEdits, TypeOK
  <2>2. FolderProgress'
    BY <2>0 DEF FolderProgress, TypeOK, Settings
  <2>3. SaveProgress'
    BY <2>0 DEF SaveProgress
  <2>4. WriterAlone'
    BY <2>0 DEF WriterAlone
  <2>5. FileSaved'
    BY DEF FileSaved, TypeOK
  <2>6. AnsweredInForce'
    BY <2>0 DEF AnsweredInForce
  <2>7. MalformedExplained'
    BY DEF MalformedExplained, TypeOK
  <2> QED
    BY <2>1, <2>2, <2>3, <2>4, <2>5, <2>6, <2>7
<1>24. ASSUME NEW p \in Ports, Bind(p) PROVE EditorsInv'
  <2> USE <1>24 DEF Bind
  <2>0. ~accepted' /\ \A b \in Admins : pc'[b] = "idle"
    BY DEF WhoEdits, TypeOK
  <2>1. WhoEdits'
    BY DEF WhoEdits, TypeOK
  <2>2. FolderProgress'
    BY <2>0 DEF FolderProgress, TypeOK, Settings
  <2>3. SaveProgress'
    BY <2>0 DEF SaveProgress
  <2>4. WriterAlone'
    BY <2>0 DEF WriterAlone
  <2>5. AnsweredInForce'
    BY <2>0 DEF AnsweredInForce
  <2>6. MalformedExplained'
    BY DEF MalformedExplained, TypeOK
  <2> QED
    BY <2>1, <2>2, <2>3, <2>4, <2>5, <2>6 DEF FileSaved
<1>25. CASE BindSave
  <2> USE <1>25 DEF BindSave, BootOpen
  <2>0. ~accepted' /\ \A b \in Admins : pc'[b] = "idle"
    BY DEF WhoEdits, TypeOK
  <2>1. WhoEdits'
    BY DEF WhoEdits, TypeOK
  <2>2. FolderProgress'
    BY <2>0 DEF FolderProgress, TypeOK, Settings
  <2>3. SaveProgress'
    BY <2>0 DEF SaveProgress
  <2>4. WriterAlone'
    BY <2>0 DEF WriterAlone
  <2>5. FileSaved'
    BY DEF FileSaved, TypeOK
  <2>6. AnsweredInForce'
    BY <2>0 DEF AnsweredInForce
  <2>7. MalformedExplained'
    BY DEF MalformedExplained, TypeOK
  <2> QED
    BY <2>1, <2>2, <2>3, <2>4, <2>5, <2>6, <2>7
<1>26. CASE BindWrite
  <2> USE <1>26 DEF BindWrite, BootWrite
  <2>0. ~accepted' /\ \A b \in Admins : pc'[b] = "idle"
    BY DEF WhoEdits, TypeOK
  <2>1. WhoEdits'
    BY DEF WhoEdits, TypeOK
  <2>2. FolderProgress'
    BY <2>0 DEF FolderProgress, TypeOK, Settings
  <2>3. SaveProgress'
    BY <2>0 DEF SaveProgress
  <2>4. WriterAlone'
    BY <2>0 DEF WriterAlone
  <2>5. FileSaved'
    BY DEF FileSaved, TypeOK
  <2>6. AnsweredInForce'
    BY <2>0 DEF AnsweredInForce
  <2>7. MalformedExplained'
    BY DEF MalformedExplained, TypeOK
  <2> QED
    BY <2>1, <2>2, <2>3, <2>4, <2>5, <2>6, <2>7
<1>27. CASE BootSaveFails
  <2> USE <1>27 DEF BootSaveFails
  <2>1. WhoEdits'
    BY DEF WhoEdits, TypeOK
  <2>2. FolderProgress'
    BY DEF FolderProgress, TypeOK, Settings
  <2>3. SaveProgress'
    BY DEF SaveProgress, TypeOK, LimitsOf, Settings
  <2>4. WriterAlone'
    BY DEF WriterAlone, TypeOK
  <2>5. AnsweredInForce'
    BY DEF AnsweredInForce, TypeOK, LimitsOf, Settings
  <2>6. MalformedExplained'
    BY DEF MalformedExplained, TypeOK
  <2> QED
    BY <2>1, <2>2, <2>3, <2>4, <2>5, <2>6 DEF FileSaved
<1>28. CASE RestartTaken
  <2> USE <1>28 DEF RestartTaken
  <2>1. WhoEdits'
    BY DEF WhoEdits, TypeOK
  <2>2. FolderProgress'
    BY DEF FolderProgress, TypeOK, Settings
  <2>3. MalformedExplained'
    BY DEF MalformedExplained, TypeOK
  <2> QED
    BY <2>1, <2>2, <2>3 DEF SaveProgress, WriterAlone, FileSaved, AnsweredInForce
<1>29. CASE DrainDone
  <2> USE <1>29 DEF DrainDone, Busy
  <2>1. WhoEdits'
    BY DEF WhoEdits, TypeOK
  <2>2. FolderProgress'
    BY DEF FolderProgress, TypeOK, Settings
  <2>3. MalformedExplained'
    BY DEF MalformedExplained, TypeOK
  <2> QED
    BY <2>1, <2>2, <2>3 DEF SaveProgress, WriterAlone, FileSaved, AnsweredInForce
<1>30. CASE DrainExpires
  <2> USE <1>30 DEF DrainExpires, Patience, Busy, ProcessEnds
  <2>1. WhoEdits'
    BY DEF WhoEdits, TypeOK
  <2>2. FolderProgress'
    BY DEF FolderProgress, TypeOK, Settings
  <2>3. SaveProgress'
    BY DEF SaveProgress, TypeOK, LimitsOf, Settings
  <2>4. WriterAlone'
    BY DEF WriterAlone, TypeOK
  <2>5. AnsweredInForce'
    BY DEF AnsweredInForce, TypeOK, LimitsOf, Settings
  <2>6. MalformedExplained'
    BY DEF MalformedExplained, TypeOK
  <2> QED
    BY <2>1, <2>2, <2>3, <2>4, <2>5, <2>6 DEF FileSaved
<1>31. CASE Exec
  <2> USE <1>31 DEF Exec, ProcessEnds
  <2>1. WhoEdits'
    BY DEF WhoEdits, TypeOK
  <2>2. FolderProgress'
    BY DEF FolderProgress, TypeOK, Settings
  <2>3. SaveProgress'
    BY DEF SaveProgress, TypeOK, LimitsOf, Settings
  <2>4. WriterAlone'
    BY DEF WriterAlone, TypeOK
  <2>5. AnsweredInForce'
    BY DEF AnsweredInForce, TypeOK, LimitsOf, Settings
  <2>6. MalformedExplained'
    BY DEF MalformedExplained, TypeOK
  <2> QED
    BY <2>1, <2>2, <2>3, <2>4, <2>5, <2>6 DEF FileSaved
<1>32. CASE StopTaken
  <2> USE <1>32 DEF StopTaken
  <2>1. WhoEdits'
    BY DEF WhoEdits, TypeOK
  <2>2. FolderProgress'
    BY DEF FolderProgress, TypeOK, Settings
  <2>3. MalformedExplained'
    BY DEF MalformedExplained, TypeOK
  <2> QED
    BY <2>1, <2>2, <2>3 DEF SaveProgress, WriterAlone, FileSaved, AnsweredInForce
<1>33. CASE StepFails
  <2> USE <1>33 DEF StepFails, ProcessEnds
  <2>1. WhoEdits'
    BY DEF WhoEdits, TypeOK
  <2>2. FolderProgress'
    BY DEF FolderProgress, TypeOK, Settings
  <2>3. SaveProgress'
    BY DEF SaveProgress, TypeOK, LimitsOf, Settings
  <2>4. WriterAlone'
    BY DEF WriterAlone, TypeOK
  <2>5. AnsweredInForce'
    BY DEF AnsweredInForce, TypeOK, LimitsOf, Settings
  <2>6. MalformedExplained'
    BY DEF MalformedExplained, TypeOK
  <2> QED
    BY <2>1, <2>2, <2>3, <2>4, <2>5, <2>6 DEF FileSaved
<1>34. CASE Crash
  <2> USE <1>34 DEF Crash, ProcessEnds
  <2>1. WhoEdits'
    BY DEF WhoEdits, TypeOK
  <2>2. FolderProgress'
    BY DEF FolderProgress, TypeOK, Settings
  <2>3. SaveProgress'
    BY DEF SaveProgress, TypeOK, LimitsOf, Settings
  <2>4. WriterAlone'
    BY DEF WriterAlone, TypeOK
  <2>5. AnsweredInForce'
    BY DEF AnsweredInForce, TypeOK, LimitsOf, Settings
  <2>6. MalformedExplained'
    BY DEF MalformedExplained, TypeOK
  <2> QED
    BY <2>1, <2>2, <2>3, <2>4, <2>5, <2>6 DEF FileSaved
<1>35. CASE Start
  <2> USE <1>35 DEF Start, ProcessEnds
  <2>1. WhoEdits'
    BY DEF WhoEdits, TypeOK
  <2>2. FolderProgress'
    BY DEF FolderProgress, TypeOK, Settings
  <2>3. SaveProgress'
    BY DEF SaveProgress, TypeOK, LimitsOf, Settings
  <2>4. WriterAlone'
    BY DEF WriterAlone, TypeOK
  <2>5. AnsweredInForce'
    BY DEF AnsweredInForce, TypeOK, LimitsOf, Settings
  <2>6. MalformedExplained'
    BY DEF MalformedExplained, TypeOK
  <2> QED
    BY <2>1, <2>2, <2>3, <2>4, <2>5, <2>6 DEF FileSaved
<1>36. CASE Off
  BY <1>36 DEF Off, WhoEdits, FolderProgress, SaveProgress, WriterAlone,
     FileSaved, AnsweredInForce, MalformedExplained
<1>37. CASE UNCHANGED settingsVars
  BY <1>37 DEF WhoEdits, FolderProgress, SaveProgress, WriterAlone, FileSaved,
     AnsweredInForce, MalformedExplained
<1> QED
  BY <1>1, <1>2, <1>3, <1>4, <1>5, <1>6, <1>7, <1>8, <1>9, <1>10, <1>11,
     <1>12, <1>13, <1>14, <1>15, <1>16, <1>17, <1>18, <1>19, <1>20, <1>21,
     <1>22, <1>23, <1>24, <1>25, <1>26, <1>27, <1>28, <1>29, <1>30, <1>31,
     <1>32, <1>33, <1>34, <1>35, <1>36, <1>37
     DEF Next, Update, Boot, Leave

\* The initial states, where no request has come yet.
LEMMA InitEditorsInv == Init => EditorsInv
<1>1. Init => WhoEdits /\ FolderProgress
  BY ConstantFacts DEF Init, WhoEdits, FolderProgress, Quiet, Up, BootSteps, DrainSteps, EditSteps,
     SaveSteps, Scalars
<1>2. Init => SaveProgress /\ WriterAlone
  BY ConstantFacts DEF Init, SaveProgress, WriterAlone, SaveSteps
<1>3. Init => FileSaved /\ AnsweredInForce /\ MalformedExplained
  BY ConstantFacts DEF Init, FileSaved, AnsweredInForce, MalformedExplained
<1> QED
  BY <1>1, <1>2, <1>3, InitTypes DEF EditorsInv

\* It holds in every state.
LEMMA EditorsInvKept == Spec => []EditorsInv
<1>1. EditorsInv /\ [Next]_settingsVars => EditorsInv'
  BY NextTypes, NextEditorsInv DEF EditorsInv
<1> QED
  BY InitEditorsInv, <1>1, PTL DEF Spec

\* The inductive invariant of settings, configuration file and restarts
\* (handler.go:701-808), however many administrators are at work.
THEOREM SettingsInvHolds == Spec => []SettingsInv
  BY RestartInvKept, EditorsInvKept, PTL DEF SettingsInv

\* When no settings request is under way, listings, uploads and settings are on
\* one folder (handler.go:721-741, server.go:34-66), however many requests have
\* changed it and ended half way; unless the last to change it overlapped.
THEOREM FoldersKept == Spec => []FoldersAgree
<1>1. EditorsInv => FoldersAgree
  BY DEF EditorsInv, FolderProgress, FoldersAgree, EditSteps
<1> QED
  BY EditorsInvKept, <1>1, PTL

\* What was answered with 200 is in force and on disk, unless another settings
\* request was served at the same time (handler.go:792-807).
THEOREM AnswersKept == Spec => []AnsweredInForce
<1>1. EditorsInv => AnsweredInForce
  BY DEF EditorsInv
<1> QED
  BY EditorsInvKept, <1>1, PTL

\* config.json is damaged only by what ends or fails in the middle of a write,
\* or by two writes at once (config.go:93-110).
THEOREM DamageExplained == Spec => []MalformedExplained
<1>1. EditorsInv => MalformedExplained
  BY DEF EditorsInv
<1> QED
  BY EditorsInvKept, <1>1, PTL

\* The start is the only step that leaves "load" without ending the process.
LEMMA OnlyLoad ==
  ASSUME Next, main = "load", main' \notin {"load", "down"}
  PROVE  Load
<1>1. ASSUME NEW a \in Admins, UpdateBegin(a) \/ Update(a) \/ RestartClaim(a) \/ RestartSend(a)
      PROVE  main' = main
  BY <1>1 DEF Update, UpdateBegin, DirKept, DirChanges, UpdateStorage, SetRoot, SetSharedDir,
     SetScalar, UpdateRefused, ReadMax, ReadChunk, UpdateLimits, SaveSnapshot, SaveOpen,
     SaveOpenFails, SaveWrite, SaveWriteFails, RestartClaim, RestartSend
<1>2. ~(TransferBegins \/ TransferEnds \/ StopTaken \/ Leave)
  BY DEF TransferBegins, TransferEnds, StopTaken, Leave, RestartTaken, DrainDone, DrainExpires, Exec,
     Up, DrainSteps
<1>3. ~(Create \/ CreateWrite \/ BindSave \/ BindWrite \/ BootSaveFails \/ \E p \in Ports : Bind(p))
  BY DEF Create, CreateWrite, BindSave, BindWrite, BootSaveFails, Bind, BootOpen, BootWrite
<1>4. ~(StepFails \/ Crash \/ Start \/ Off)
  BY DEF StepFails, Crash, Start, Off, ProcessEnds
<1> QED
  BY <1>1, <1>2, <1>3, <1>4 DEF Next, Boot

\* A start gets back what was last saved or, after a write that was cut off or
\* mixed with another, the defaults (config.go:62-91).
THEOREM StartsRestore == Spec => StartRestores
<1>1. EditorsInv /\ [Next]_settingsVars =>
        [main = "load" /\ main' # "load" /\ file # Missing /\ main' # "down" =>
           \/ settings' = saved
           \/ (cutOff \/ "file" \in mixed) /\ settings' = Defaults]_settingsVars
  <2> SUFFICES ASSUME EditorsInv, Next, main = "load", main' \notin {"load", "down"},
                      file # Missing
               PROVE  \/ settings' = saved
                      \/ (cutOff \/ "file" \in mixed) /\ settings' = Defaults
    OBVIOUS
  <2>1. settings' = Loaded
    BY OnlyLoad DEF Load
  <2>2. CASE file = Malformed
    <3>1. \A a \in Admins : pc[a] = "idle"
      BY DEF EditorsInv, WhoEdits, Quiet, Up, DrainSteps
    <3> QED
      BY <2>1, <2>2, <3>1 DEF Loaded, EditorsInv, MalformedExplained
  <2>3. CASE file # Malformed
    BY <2>1, <2>3 DEF Loaded, EditorsInv, FileSaved, TypeOK
  <2> QED
    BY <2>2, <2>3
<1> QED
  BY EditorsInvKept, <1>1, PTL DEF Spec, StartRestores

==============================================================================
