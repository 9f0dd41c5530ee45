---------------------------- MODULE FileLogProofs ----------------------------
(***************************************************************************)
(* Theorems about the file log, for any number of goroutines, any limits   *)
(* and any number of failures, midnights and restarts within the bounds.   *)
(***************************************************************************)
EXTENDS FileLog, FiniteSetTheorems, TLAPS

N      == Cardinality(Writers)
Line   == Writers \X (1..MaxMsgs)
Passed == {g \in Writers : wpc[g] = "write"}

\* Files are made one after the other, and each keeps a name.
FilesInOrder ==
    /\ \E k \in Nat : Reachable = 1..k
    /\ \A f \in Files : contents[f] # <<>> => f \in Reachable

\* fileWriter and its count of lines belong to the file that is named, unless
\* none is; an open file is named.
Current ==
    /\ named # Nil => fileWriter = named /\ maxLinesCurLines = Len(contents[named])
    /\ open => named # Nil

Opened == dailyOpenDate = Day(openedOn)

\* Only the goroutine that closed the file opens the next one; without trouble
\* it finds no file of that name.
Locked == \A g \in Writers : wpc[g] = "reopen" => mu = {g} /\ (~troubled => named = Nil)

Began == \A g \in Writers : wpc[g] # "idle" => count[g] >= 1

\* Once the file is full nobody passes the test any more: of the goroutines
\* that have, each adds a line.
Bounded ==
    ~troubled =>
        /\ \A f \in Files : Len(contents[f]) < MaxLines + N
        /\ named # Nil /\ Len(contents[named]) >= MaxLines =>
              Len(contents[named]) + Cardinality(Passed) < MaxLines + N

\* A line stands in one place; it is of an earlier message than the one its
\* goroutine is about to write.
Once ==
    \A f \in Files, h \in Files : \A i \in DOMAIN contents[f], j \in DOMAIN contents[h] :
        contents[f][i] = contents[h][j] => f = h /\ i = j
Earlier ==
    \A f \in Files : \A i \in DOMAIN contents[f] : \A g \in Writers :
        contents[f][i][1] = g =>
            contents[f][i][2] <= count[g] /\ (wpc[g] # "idle" => contents[f][i][2] < count[g])
Kept == \A m \in logged : \E f \in Files : \E i \in DOMAIN contents[f] : contents[f][i] = m

FileInv ==
    /\ TypeOK /\ FilesInOrder /\ Current /\ Opened /\ Locked /\ Began
    /\ Bounded /\ Once /\ Earlier /\ Kept

-----------------------------------------------------------------------------
LEMMA Limits ==
    /\ N \in Nat \ {0} /\ IsFiniteSet(Writers)
    /\ MaxLines \in Nat \ {0} /\ MaxNum \in Nat \ {0} /\ DaysInMonth \in Nat \ {0}
    /\ MaxMsgs \in Nat /\ MaxDate \in Nat /\ MaxFaults \in Nat /\ MaxRestarts \in Nat
<1>1. N \in Nat /\ N # 0
  BY WritersAssumption, FS_CardinalityType, FS_EmptySet DEF N
<1> QED  BY <1>1, WritersAssumption, LimitsAssumption

LEMMA DayBounds == \A t \in Nat : Day(t) \in 0..(DaysInMonth - 1)
<1> SUFFICES ASSUME NEW t \in Nat PROVE Day(t) \in 0..(DaysInMonth - 1)
  OBVIOUS
<1> QED  BY Limits, SMT DEF Day

LEMMA FilesBounds ==
    /\ (MaxDate + 1) * MaxNum \in Nat \ {0}
    /\ \A f : f \in Files <=> f \in Nat /\ 1 <= f /\ f <= 1 + (MaxDate + 1) * MaxNum + MaxRestarts
    /\ 1 \in Files /\ Nil \notin Files
<1>1. \A a \in Nat, b \in Nat \ {0} : (a + 1) * b \in Nat \ {0}
  OBVIOUS
<1>2. (MaxDate + 1) * MaxNum \in Nat \ {0}
  BY <1>1, Limits
<1> DEFINE p == (MaxDate + 1) * MaxNum
<1> HIDE DEF p
<1>3. p \in Nat \ {0}
  BY <1>2 DEF p
<1>4. Files = 1..(1 + p + MaxRestarts)
  BY DEF Files, p
<1>5. /\ \A f : f \in Files <=> f \in Nat /\ 1 <= f /\ f <= 1 + p + MaxRestarts
      /\ 1 \in Files /\ Nil \notin Files
  BY <1>3, <1>4, Limits DEF Nil
<1> QED  BY <1>2, <1>5 DEF p

\* While no file is named the next one is new, and there is room for it.
LEMMA NewFileIsNew ==
    ASSUME FileInv, named = Nil, NEW k \in Nat, Reachable = 1..k
    PROVE  NewFile = k + 1 /\ NewFile \in Files /\ NewFile \notin Reachable /\ contents[NewFile] = <<>>
<1> DEFINE Names == Date \X (1..MaxNum)
           S == {rotated[n] : n \in Names}
<1>1. IsFiniteSet(Names) /\ Cardinality(Names) = (MaxDate + 1) * MaxNum
  <2>1. IsFiniteSet(Date) /\ Cardinality(Date) = MaxDate + 1
    BY FS_Interval, Limits DEF Date
  <2>2. IsFiniteSet(1..MaxNum) /\ Cardinality(1..MaxNum) = MaxNum
    BY FS_Interval, Limits
  <2> QED  BY <2>1, <2>2, FS_Product
<1>2. IsFiniteSet(1..k) /\ Cardinality(1..k) = k
  BY FS_Interval
<1>3. \A f \in 1..k : \E n \in Names : rotated[n] = f
  BY FilesBounds DEF Reachable, FileInv, TypeOK
<1>4. k <= (MaxDate + 1) * MaxNum
  <2> DEFINE g == [f \in 1..k |-> CHOOSE n \in Names : rotated[n] = f]
  <2>1. \A f \in 1..k : g[f] \in Names /\ rotated[g[f]] = f
    BY <1>3
  <2>2. g \in Injection(1..k, Names)
    BY <2>1 DEF Injection, IsInjective
  <2> HIDE DEF g
  <2>3. Cardinality(1..k) <= Cardinality(Names)
    BY <1>1, <2>2, FS_Injection
  <2> QED  BY <1>1, <1>2, <2>3
<1>5. {f \in Files : f \in Reachable \/ contents[f] # <<>>} = 1..k
  <2>1. 1..k \subseteq Files
    BY DEF Reachable
  <2>2. \A f \in Files : contents[f] # <<>> => f \in 1..k
    BY DEF FileInv, FilesInOrder
  <2> QED  BY <2>1, <2>2
<1>6. NewFile = k + 1
  <2> DEFINE U == {f \in Files : f \in Reachable \/ contents[f] # <<>>}
  <2>1. NewFile = 1 + Cardinality(U)
    BY Zenon DEF NewFile
  <2>2. U = 1..k
    BY <1>5, Zenon
  <2> HIDE DEF U
  <2> QED  BY <1>2, <2>1, <2>2
<1>7. NewFile \in Files
  BY <1>4, <1>6, FilesBounds, Limits
<1>8. NewFile \notin Reachable
  BY <1>6
<1> QED  BY <1>6, <1>7, <1>8 DEF FileInv, FilesInOrder

LEMMA LinesAre ==
    ASSUME TypeOK, NEW f \in Files
    PROVE  /\ contents[f] \in Seq(Line) /\ Len(contents[f]) \in Nat
           /\ DOMAIN contents[f] = 1..Len(contents[f])
           /\ \A i \in DOMAIN contents[f] :
                 /\ contents[f][i] \in Line
                 /\ contents[f][i][1] \in Writers /\ contents[f][i][2] \in Nat
<1>1. contents[f] \in Seq(Line)
  BY DEF TypeOK, Line
<1>2. /\ Len(contents[f]) \in Nat /\ DOMAIN contents[f] = 1..Len(contents[f])
      /\ \A i \in DOMAIN contents[f] : contents[f][i] \in Line
  BY <1>1
<1>3. \A m \in Line : m[1] \in Writers /\ m[2] \in Nat
  BY DEF Line
<1> QED  BY <1>1, <1>2, <1>3

LEMMA PassedCounted ==
    /\ IsFiniteSet(Passed) /\ Cardinality(Passed) \in Nat /\ Cardinality(Passed) <= N
<1>1. Passed \in SUBSET Writers
  BY DEF Passed
<1> QED  BY <1>1, Limits, FS_Subset, FS_CardinalityType DEF N

LEMMA InitInv == Init => FileInv
<1> SUFFICES ASSUME Init PROVE FileInv
  OBVIOUS
<1>1. /\ \A f \in Files : contents[f] = <<>> /\ Len(contents[f]) = 0 /\ DOMAIN contents[f] = {}
      /\ named = 1 /\ fileWriter = 1 /\ open = TRUE /\ maxLinesCurLines = 0 /\ logged = {}
      /\ \A g \in Writers : wpc[g] = "idle"
  BY DEF Init
<1>2. TypeOK
  <2>1. 0 \in 0..(DaysInMonth - 1) /\ 0 \in Date /\ 0 \in 0..MaxMsgs /\ 0 \in 0..0
    BY Limits DEF Date
  <2>2. /\ named \in Files /\ fileWriter \in Files
        /\ rotated \in [Date \X (1..MaxNum) -> Files \cup {Nil}]
        /\ contents \in [Files -> Seq(Writers \X (1..MaxMsgs))]
    BY FilesBounds DEF Init
  <2>3. /\ wpc \in [Writers -> {"idle", "test", "rotate", "reopen", "write"}]
        /\ day \in [Writers -> 0..(DaysInMonth - 1)] /\ count \in [Writers -> 0..MaxMsgs]
        /\ dailyOpenDate \in 0..(DaysInMonth - 1)
    BY <2>1 DEF Init
  <2>4. /\ maxLinesCurLines \in Nat /\ mu \in SUBSET Writers /\ date \in Date
        /\ faults \in Nat /\ restarts \in Nat /\ logged = {} /\ troubled \in BOOLEAN
        /\ openedOn \in 0..date /\ open \in BOOLEAN
    BY <2>1 DEF Init
  <2> QED  BY <2>2, <2>3, <2>4 DEF TypeOK
<1>3. FilesInOrder
  <2>1. \A f \in Files : f \in Reachable <=> f = 1
    BY FilesBounds DEF Init, Reachable
  <2>2. Reachable = 1..1
    BY <2>1, FilesBounds DEF Reachable
  <2> QED  BY <1>1, <2>2 DEF FilesInOrder
<1>4. Current
  BY <1>1, FilesBounds DEF Current, Nil
<1>5. Opened
  <2>1. 0 % DaysInMonth = 0
    BY Limits, SMT
  <2> QED  BY <2>1 DEF Init, Opened, Day
<1>6. Bounded
  BY <1>1, Limits, FilesBounds DEF Bounded
<1>7. Locked /\ Began /\ Once /\ Earlier /\ Kept
  BY <1>1 DEF Locked, Began, Once, Earlier, Kept
<1> QED  BY <1>2, <1>3, <1>4, <1>5, <1>6, <1>7 DEF FileInv

\* A step of the goroutines between test and write leaves the files alone.
LEMMA FilesAlone ==
    ASSUME FileInv, UNCHANGED <<diskVars, logVars, logged, openedOn>>
    PROVE  (FilesInOrder /\ Current /\ Opened /\ Once /\ Kept)'
BY DEF FileInv, FilesInOrder, Reachable, Current, Opened, Once, Kept, diskVars, logVars

\* createLogFile: the file that is opened is of that name, or new and empty.
LEMMA OpensNamed ==
    ASSUME FileInv, NEW f, f = (IF named = Nil THEN NewFile ELSE named),
           Opens(f), UNCHANGED <<rotated, contents, date>>
    PROVE  /\ (FilesInOrder /\ Current /\ Opened)'
           /\ f \in Files /\ Len(contents[f]) \in Nat
           /\ named = Nil => Len(contents[f]) = 0
           /\ Day(date) \in 0..(DaysInMonth - 1) /\ openedOn' \in 0..date
<1>1. PICK k \in Nat : Reachable = 1..k
  BY DEF FileInv, FilesInOrder
<1>2. f \in Files /\ (named = Nil => contents[f] = <<>> /\ f = k + 1)
  BY <1>1, NewFileIsNew DEF FileInv, TypeOK
<1>3. Len(contents[f]) \in Nat
  BY <1>2 DEF FileInv, TypeOK
<1>4. FilesInOrder'
  <2>1. CASE named = Nil
    <3>1. \A h \in Files : h \in Reachable' <=> h \in Reachable \/ h = f
      BY <1>2, <2>1, FilesBounds DEF Reachable, Opens
    <3>2. Reachable' = Reachable \cup {f}
      BY <1>2, <3>1 DEF Reachable
    <3>3. Reachable' = 1..(k + 1)
      BY <1>1, <1>2, <2>1, <3>2
    <3> QED  BY <3>2, <3>3 DEF FileInv, FilesInOrder
  <2>2. CASE named # Nil
    <3>1. Reachable' = Reachable
      BY <2>2 DEF Reachable, Opens
    <3> QED  BY <3>1 DEF FileInv, FilesInOrder
  <2> QED  BY <2>1, <2>2
<1>5. Current'
  BY <1>2, FilesBounds DEF Current, Opens
<1>6. Opened'
  BY DEF Opened, Opens, Day
<1>7. date \in Nat /\ Day(date) \in 0..(DaysInMonth - 1) /\ openedOn' \in 0..date
  <2>1. date \in Nat
    BY Limits DEF FileInv, TypeOK, Date
  <2> QED  BY <2>1, DayBounds DEF Opens
<1> QED  BY <1>2, <1>3, <1>4, <1>5, <1>6, <1>7

LEMMA NextNumberIsFree ==
    ASSUME FreeNums # {}
    PROVE  NextNumber \in 1..MaxNum /\ rotated[<<date, NextNumber>>] = Nil
<1>1. FreeNums \subseteq Nat
  BY DEF FreeNums
<1>2. \E n \in FreeNums : \A m \in FreeNums : n <= m
  <2>1. PICK n \in FreeNums : \A m \in FreeNums : ~(<<m, n>> \in OpToRel(<, Nat))
    BY <1>1, NatLessThanWellFounded, WFMin
  <2>2. \A m \in FreeNums : ~(m < n)
    BY <1>1, <2>1 DEF OpToRel
  <2> QED  BY <1>1, <2>2
<1>3. NextNumber \in FreeNums
  BY <1>2 DEF NextNumber
<1> QED  BY <1>3 DEF FreeNums

-----------------------------------------------------------------------------
LEMMA BeginInv ==
    ASSUME FileInv, NEW g \in Writers, Begin(g)
    PROVE  FileInv'
<1>1. /\ TypeOK /\ wpc[g] = "idle" /\ count[g] < MaxMsgs
      /\ count' = [count EXCEPT ![g] = @ + 1] /\ day' = [day EXCEPT ![g] = Day(date)]
      /\ wpc' = [wpc EXCEPT ![g] = "test"]
      /\ UNCHANGED <<diskVars, logVars, mu, date, faults, restarts, histVars>>
      /\ UNCHANGED <<named, rotated, contents, fileWriter, open, maxLinesCurLines, dailyOpenDate>>
      /\ UNCHANGED <<logged, troubled, openedOn>>
  BY DEF FileInv, Begin, diskVars, logVars, histVars
<1>2. /\ \A h \in Writers : /\ wpc'[h] = IF h = g THEN "test" ELSE wpc[h]
                            /\ count[h] \in Nat
                            /\ count'[h] = IF h = g THEN count[h] + 1 ELSE count[h]
  BY <1>1, Limits DEF TypeOK
<1>3. TypeOK'
  <2>1. date \in Nat
    BY <1>1, Limits DEF TypeOK, Date
  <2>2. Day(date) \in 0..(DaysInMonth - 1) /\ count[g] + 1 \in 0..MaxMsgs
    <3>1. count[g] \in 0..MaxMsgs /\ count[g] < MaxMsgs
      BY <1>1 DEF TypeOK
    <3>2. count[g] + 1 \in 0..MaxMsgs
      BY <3>1, Limits
    <3> QED  BY <2>1, <3>2, DayBounds
  <2>3. /\ day' \in [Writers -> 0..(DaysInMonth - 1)] /\ count' \in [Writers -> 0..MaxMsgs]
        /\ wpc' \in [Writers -> {"idle", "test", "rotate", "reopen", "write"}]
    BY <1>1, <2>2 DEF TypeOK
  <2> QED  BY <1>1, <2>3 DEF TypeOK
<1>4. (FilesInOrder /\ Current /\ Opened /\ Once /\ Kept)'
  BY <1>1, FilesAlone
<1>5. Locked' /\ Began'
  BY <1>1, <1>2 DEF FileInv, Locked, Began
<1>6. Bounded'
  <2>1. Passed' = Passed
    BY <1>1, <1>2 DEF Passed
  <2> QED  BY <1>1, <2>1 DEF FileInv, Bounded, N
<1>7. Earlier'
  <2>1. \A f \in Files : \A i \in DOMAIN contents[f] : contents[f][i][2] \in Nat
    BY LinesAre DEF FileInv
  <2> QED  BY <1>1, <1>2, <2>1 DEF FileInv, Earlier
<1> QED  BY <1>3, <1>4, <1>5, <1>6, <1>7 DEF FileInv

\* A goroutine that needs no rotation passes, and the file is not full.
LEMMA PassInv ==
    ASSUME FileInv, NEW g \in Writers, wpc[g] \in {"test", "rotate"}, NEW to \in {"rotate", "write"},
           wpc' = [wpc EXCEPT ![g] = to], troubled' \in BOOLEAN, troubled => troubled',
           to = "write" => ~NeedRotate(day[g]) \/ troubled',
           UNCHANGED <<diskVars, logVars, mu, day, count, date, faults, restarts, logged, openedOn>>
    PROVE  FileInv'
<1>1. /\ TypeOK
      /\ UNCHANGED <<named, rotated, contents, fileWriter, open, maxLinesCurLines, dailyOpenDate>>
  BY DEF FileInv, diskVars, logVars
<1>2. \A h \in Writers : wpc'[h] = IF h = g THEN to ELSE wpc[h]
  BY <1>1 DEF TypeOK
<1>3. TypeOK'
  BY <1>1 DEF TypeOK
<1>4. (FilesInOrder /\ Current /\ Opened /\ Once /\ Kept)'
  BY FilesAlone
<1>5. Locked' /\ Began' /\ Earlier'
  BY <1>1, <1>2 DEF FileInv, Locked, Began, Earlier
<1>6. Bounded'
  <2> SUFFICES ASSUME ~troubled' PROVE Bounded'
    BY DEF Bounded
  <2>1. CASE to = "rotate"
    <3>1. Passed' = Passed
      BY <1>2, <2>1 DEF Passed
    <3> QED  BY <1>1, <3>1 DEF FileInv, Bounded, N
  <2>2. CASE to = "write"
    <3>1. maxLinesCurLines < MaxLines
      BY <1>1, <2>2, Limits DEF NeedRotate, TypeOK
    <3>2. named # Nil => ~(Len(contents[named]) >= MaxLines)
      BY <1>1, <3>1, Limits DEF FileInv, Current, TypeOK
    <3> QED  BY <1>1, <3>2 DEF FileInv, Bounded, N
  <2> QED  BY <2>1, <2>2
<1> QED  BY <1>3, <1>4, <1>5, <1>6 DEF FileInv

LEMMA TestInv ==
    ASSUME FileInv, NEW g \in Writers, Test(g)
    PROVE  FileInv'
<1> DEFINE to == IF NeedRotate(day[g]) THEN "rotate" ELSE "write"
<1>1. /\ wpc[g] \in {"test", "rotate"} /\ to \in {"rotate", "write"}
      /\ wpc' = [wpc EXCEPT ![g] = to]
      /\ to = "write" => ~NeedRotate(day[g])
      /\ UNCHANGED <<diskVars, logVars, mu, day, count, date, faults, restarts, logged, openedOn>>
      /\ troubled' = troubled /\ troubled \in BOOLEAN
  BY DEF Test, FileInv, TypeOK, histVars
<1> HIDE DEF to
<1> QED  BY <1>1, PassInv

LEMMA RotateNotInv ==
    ASSUME FileInv, NEW g \in Writers, RotateNot(g)
    PROVE  FileInv'
<1>1. /\ wpc[g] \in {"test", "rotate"} /\ wpc' = [wpc EXCEPT ![g] = "write"]
      /\ ~NeedRotate(day[g]) \/ troubled'
      /\ troubled' \in BOOLEAN /\ (troubled => troubled')
      /\ UNCHANGED <<diskVars, logVars, mu, day, count, date, faults, restarts, logged, openedOn>>
  BY DEF RotateNot, FileInv, TypeOK
<1> QED  BY <1>1, PassInv

\* The renamed file keeps a name, the one of the number that was free.
LEMMA RotateRenameInv ==
    ASSUME FileInv, NEW g \in Writers, RotateRename(g)
    PROVE  FileInv'
<1>1. /\ TypeOK /\ wpc[g] = "rotate" /\ mu = {} /\ named # Nil /\ FreeNums # {}
      /\ open' = FALSE /\ mu' = {g} /\ wpc' = [wpc EXCEPT ![g] = "reopen"]
      /\ UNCHANGED <<contents, fileWriter, maxLinesCurLines, dailyOpenDate, day, count, date,
                     restarts, logged, openedOn>>
  BY DEF FileInv, RotateRename
<1> DEFINE to == <<date, NextNumber>>
<1>2. /\ \/ /\ rotated' = [rotated EXCEPT ![to] = named] /\ named' = Nil
            /\ troubled' = troubled /\ faults' = faults
         \/ /\ UNCHANGED <<rotated, named>> /\ troubled' = TRUE /\ faults' = faults + 1
      /\ to \in Date \X (1..MaxNum) /\ rotated[to] = Nil
  BY <1>1, NextNumberIsFree DEF RotateRename, TypeOK
<1> HIDE DEF to
<1>3. \A h \in Writers : wpc'[h] = IF h = g THEN "reopen" ELSE wpc[h]
  BY <1>1 DEF TypeOK
<1>4. TypeOK'
  <2>1. rotated' \in [Date \X (1..MaxNum) -> Files \cup {Nil}]
    BY <1>1, <1>2 DEF TypeOK
  <2>2. named' \in Files \cup {Nil} /\ faults' \in Nat
    BY <1>1, <1>2 DEF TypeOK
  <2>3. troubled' \in BOOLEAN
    BY <1>1, <1>2, Zenon DEF TypeOK
  <2> QED  BY <1>1, <2>1, <2>2, <2>3 DEF TypeOK
<1>5. FilesInOrder'
  <2>1. \A f \in Files : f \in Reachable' <=> f \in Reachable
    BY <1>1, <1>2, FilesBounds DEF Reachable, TypeOK
  <2>2. Reachable' = Reachable
    BY <2>1 DEF Reachable
  <2> QED  BY <1>1, <2>2 DEF FileInv, FilesInOrder
<1>6. Current' /\ Opened'
  BY <1>1, <1>2 DEF FileInv, Current, Opened
<1>7. Locked' /\ Began' /\ Earlier' /\ Once' /\ Kept'
  <2>1. Locked'
    BY <1>1, <1>2, <1>3 DEF FileInv, Locked
  <2> QED  BY <1>1, <1>3, <2>1 DEF FileInv, Began, Earlier, Once, Kept
<1>8. Bounded'
  <2>1. Passed' = Passed
    BY <1>1, <1>3 DEF Passed
  <2> QED  BY <1>1, <1>2, <2>1 DEF FileInv, Bounded, N
<1> QED  BY <1>4, <1>5, <1>6, <1>7, <1>8 DEF FileInv

\* The file that is opened after a rotation without trouble is empty.
LEMMA RotateReopenInv ==
    ASSUME FileInv, NEW g \in Writers, RotateReopen(g)
    PROVE  FileInv'
<1>1. /\ TypeOK /\ wpc[g] = "reopen" /\ mu' = {} /\ wpc' = [wpc EXCEPT ![g] = "write"]
      /\ UNCHANGED <<rotated, contents, day, count, date, restarts, logged>>
  BY DEF FileInv, RotateReopen
<1>2. \A h \in Writers : wpc'[h] = IF h = g THEN "write" ELSE wpc[h]
  BY <1>1 DEF TypeOK
<1>3. /\ mu = {g} /\ (~troubled => named = Nil)
      /\ \A h \in Writers : wpc[h] = "reopen" => h = g
  BY <1>1 DEF FileInv, Locked
<1>4. Locked' /\ Began' /\ Earlier' /\ Once' /\ Kept'
  BY <1>1, <1>2, <1>3 DEF FileInv, Locked, Began, Earlier, Once, Kept
<1>5. CASE /\ faults' = faults + 1 /\ troubled' = TRUE /\ UNCHANGED <<named, logVars, openedOn>>
  <2>1. /\ UNCHANGED <<fileWriter, open, maxLinesCurLines, dailyOpenDate>>
        /\ UNCHANGED <<named, openedOn>> /\ faults' = faults + 1 /\ troubled' = TRUE
    BY <1>5 DEF logVars
  <2>2. TypeOK'
    BY <1>1, <2>1 DEF TypeOK
  <2>3. FilesInOrder' /\ Current' /\ Opened' /\ Bounded'
    BY <1>1, <2>1 DEF FileInv, FilesInOrder, Reachable, Current, Opened, Bounded
  <2> QED  BY <1>4, <2>2, <2>3 DEF FileInv
<1>6. CASE /\ Opens(IF named = Nil THEN NewFile ELSE named) /\ UNCHANGED <<faults, troubled>>
  <2>1. PICK f : f = (IF named = Nil THEN NewFile ELSE named) /\ Opens(f)
    BY <1>6
  <2>2. /\ (FilesInOrder /\ Current /\ Opened)' /\ f \in Files /\ Len(contents[f]) \in Nat
        /\ named = Nil => Len(contents[f]) = 0
        /\ Day(date) \in 0..(DaysInMonth - 1) /\ openedOn' \in 0..date
    BY <1>1, <2>1, OpensNamed
  <2>3. /\ named' = f /\ fileWriter' = f /\ open' = TRUE
        /\ maxLinesCurLines' = Len(contents[f]) /\ dailyOpenDate' = Day(date)
    BY <2>1 DEF Opens
  <2>4. TypeOK'
    BY <1>1, <1>6, <2>2, <2>3 DEF TypeOK
  <2>5. Bounded'
    BY <1>1, <1>3, <1>6, <2>2, <2>3, Limits DEF FileInv, Bounded, N
  <2> QED  BY <1>4, <2>2, <2>4, <2>5 DEF FileInv
<1> QED  BY <1>5, <1>6 DEF RotateReopen

LEMMA RestartInv ==
    ASSUME FileInv, Restart
    PROVE  FileInv'
<1>1. /\ TypeOK /\ restarts' = restarts + 1 /\ mu' = {} /\ wpc' = [g \in Writers |-> "idle"]
      /\ UNCHANGED <<rotated, contents, day, count, date, faults, logged, troubled>>
  BY DEF FileInv, Restart
<1>2. PICK f : f = (IF named = Nil THEN NewFile ELSE named) /\ Opens(f)
  BY DEF Restart
<1>3. /\ (FilesInOrder /\ Current /\ Opened)' /\ f \in Files /\ Len(contents[f]) \in Nat
      /\ named = Nil => Len(contents[f]) = 0
      /\ Day(date) \in 0..(DaysInMonth - 1) /\ openedOn' \in 0..date
  BY <1>1, <1>2, OpensNamed
<1>4. /\ named' = f /\ fileWriter' = f /\ open' = TRUE
      /\ maxLinesCurLines' = Len(contents[f]) /\ dailyOpenDate' = Day(date)
  BY <1>2 DEF Opens
<1>5. TypeOK'
  BY <1>1, <1>3, <1>4 DEF TypeOK
<1>6. Locked' /\ Began' /\ Earlier' /\ Once' /\ Kept'
  BY <1>1 DEF FileInv, Locked, Began, Earlier, Once, Kept
<1>7. Bounded'
  <2>1. Cardinality(Passed') = 0
    BY <1>1, FS_EmptySet DEF Passed
  <2>2. ~troubled => \A h \in Files : Len(contents[h]) < MaxLines + N
    BY DEF FileInv, Bounded
  <2>3. ~troubled' => Len(contents'[named']) + Cardinality(Passed') < MaxLines + N
    BY <1>1, <1>3, <1>4, <2>1, <2>2
  <2> QED  BY <1>1, <2>2, <2>3 DEF Bounded, N
<1> QED  BY <1>3, <1>5, <1>6, <1>7 DEF FileInv

LEMMA MidnightInv ==
    ASSUME FileInv, Midnight
    PROVE  FileInv'
<1>1. /\ TypeOK /\ date' = date + 1 /\ date < MaxDate
      /\ UNCHANGED <<diskVars, logVars, mu, wpc, day, count, faults, restarts, histVars>>
      /\ UNCHANGED <<named, rotated, contents, fileWriter, open, maxLinesCurLines, dailyOpenDate>>
      /\ UNCHANGED <<logged, troubled, openedOn>>
  BY DEF FileInv, Midnight, diskVars, logVars, histVars
<1>2. TypeOK'
  <2>1. date' \in Date /\ openedOn' \in 0..date'
    BY <1>1, Limits DEF TypeOK, Date
  <2> QED  BY <1>1, <2>1 DEF TypeOK
<1>3. (FilesInOrder /\ Current /\ Opened /\ Once /\ Kept)'
  BY <1>1, FilesAlone
<1>4. Locked' /\ Began' /\ Earlier' /\ Bounded'
  BY <1>1 DEF FileInv, Locked, Began, Earlier, Bounded, Passed, N
<1> QED  BY <1>2, <1>3, <1>4 DEF FileInv

\* A line that a closed file refuses changes nothing but who passed.
LEMMA WriteRefusedInv ==
    ASSUME FileInv, NEW g \in Writers, wpc[g] = "write", wpc' = [wpc EXCEPT ![g] = "idle"],
           UNCHANGED <<diskVars, logVars, mu, day, count, date, faults, restarts, histVars>>
    PROVE  FileInv'
<1>1. /\ TypeOK
      /\ UNCHANGED <<named, rotated, contents, fileWriter, open, maxLinesCurLines, dailyOpenDate>>
      /\ UNCHANGED <<logged, troubled, openedOn>>
  BY DEF FileInv, diskVars, logVars, histVars
<1>2. \A h \in Writers : wpc'[h] = IF h = g THEN "idle" ELSE wpc[h]
  BY <1>1 DEF TypeOK
<1>3. TypeOK'
  BY <1>1 DEF TypeOK
<1>4. (FilesInOrder /\ Current /\ Opened /\ Once /\ Kept)'
  BY <1>1, FilesAlone
<1>5. Locked' /\ Began' /\ Earlier'
  BY <1>1, <1>2 DEF FileInv, Locked, Began, Earlier
<1>6. Bounded'
  <2>1. Passed' = Passed \ {g} /\ g \in Passed
    BY <1>2 DEF Passed
  <2>2. Cardinality(Passed') = Cardinality(Passed) - 1
    BY <2>1, FS_RemoveElement, PassedCounted
  <2>3. ASSUME named # Nil PROVE Len(contents[named]) \in Nat
    <3>1. named \in Files
      BY <1>1, <2>3 DEF TypeOK
    <3> QED  BY <1>1, <3>1, LinesAre
  <2> QED  BY <1>1, <2>2, <2>3, PassedCounted, Limits DEF FileInv, Bounded, N
<1> QED  BY <1>3, <1>4, <1>5, <1>6 DEF FileInv

\* The line is appended to the file that is named, and is new.
LEMMA WriteOpenInv ==
    ASSUME FileInv, NEW g \in Writers, Write(g), open
    PROVE  FileInv'
<1> DEFINE m == <<g, count[g]>>
<1>1. /\ TypeOK /\ wpc[g] = "write" /\ wpc' = [wpc EXCEPT ![g] = "idle"]
      /\ contents' = [contents EXCEPT ![fileWriter] = Append(@, m)]
      /\ maxLinesCurLines' = maxLinesCurLines + 1 /\ logged' = logged \cup {m}
      /\ UNCHANGED <<named, rotated, fileWriter, open, dailyOpenDate, mu, day, count, date,
                     faults, restarts, troubled, openedOn>>
  BY DEF FileInv, Write
<1>2. \A h \in Writers : wpc'[h] = IF h = g THEN "idle" ELSE wpc[h]
  BY <1>1 DEF TypeOK
<1>3. m \in Line /\ m[1] = g /\ m[2] = count[g] /\ count[g] \in Nat
  BY <1>1, Limits DEF FileInv, Began, TypeOK, Line
<1> HIDE DEF m
<1>4. named \in Files /\ named # Nil /\ fileWriter = named /\ maxLinesCurLines = Len(contents[named])
  BY <1>1 DEF FileInv, Current, TypeOK
<1> DEFINE n == Len(contents[named])
<1>5. /\ contents[named] \in Seq(Line) /\ n \in Nat
      /\ contents'[named] = Append(contents[named], m)
      /\ \A f \in Files : f # named => contents'[f] = contents[f]
  BY <1>1, <1>4, LinesAre DEF TypeOK
<1>6. /\ Len(contents'[named]) = n + 1 /\ DOMAIN contents'[named] = 1..(n + 1)
      /\ DOMAIN contents[named] = 1..n /\ contents'[named][n + 1] = m
      /\ \A i \in 1..n : contents'[named][i] = contents[named][i]
  BY <1>3, <1>5
<1> HIDE DEF n
<1>7. TypeOK'
  <2>1. contents' \in [Files -> Seq(Line)] /\ logged' \subseteq Line
    BY <1>1, <1>3, <1>4 DEF TypeOK, Line
  <2> QED  BY <1>1, <2>1 DEF TypeOK, Line
<1>8. FilesInOrder'
  <2>1. Reachable' = Reachable /\ named \in Reachable
    BY <1>1, <1>4 DEF Reachable
  <2> QED  BY <1>4, <1>5, <2>1 DEF FileInv, FilesInOrder
<1>9. Current' /\ Opened' /\ Locked' /\ Began'
  BY <1>1, <1>2, <1>4, <1>6 DEF FileInv, Current, Opened, Locked, Began, n
<1>10. Bounded'
  <2>1. Passed' = Passed \ {g} /\ g \in Passed
    BY <1>1, <1>2 DEF Passed
  <2>2. Cardinality(Passed') = Cardinality(Passed) - 1
    BY <2>1, FS_RemoveElement, PassedCounted
  <2>3. Cardinality(Passed) \in Nat /\ Cardinality(Passed) <= N
    BY PassedCounted
  <2> SUFFICES ASSUME ~troubled PROVE Bounded'
    BY <1>1 DEF Bounded
  <2>4. /\ n < MaxLines + N
        /\ n >= MaxLines => n + Cardinality(Passed) < MaxLines + N
        /\ \A f \in Files : Len(contents[f]) < MaxLines + N
    BY <1>4 DEF FileInv, Bounded, n
  <2>5. Cardinality(Passed) >= 1
    <3>1. Passed # {}
      BY <2>1
    <3> QED  BY <2>3, <3>1, PassedCounted, FS_EmptySet
  <2>6. /\ n + 1 < MaxLines + N
        /\ n + 1 >= MaxLines => n + 1 + Cardinality(Passed') < MaxLines + N
    BY <1>5, <2>2, <2>3, <2>4, <2>5, Limits DEF n
  <2> QED  BY <1>1, <1>4, <1>5, <1>6, <2>4, <2>6 DEF Bounded, N
<1>11. \A f \in Files : \A i \in DOMAIN contents[f] : contents[f][i] # m
  BY <1>1, <1>3 DEF FileInv, Earlier
<1>12. \A f \in Files : \A i \in DOMAIN contents'[f] :
          \/ i \in DOMAIN contents[f] /\ contents'[f][i] = contents[f][i]
          \/ f = named /\ i = n + 1 /\ contents'[f][i] = m
  <2> SUFFICES ASSUME NEW f \in Files, NEW i \in DOMAIN contents'[f]
               PROVE  \/ i \in DOMAIN contents[f] /\ contents'[f][i] = contents[f][i]
                      \/ f = named /\ i = n + 1 /\ contents'[f][i] = m
    OBVIOUS
  <2>1. CASE f # named
    BY <1>5, <2>1
  <2>2. CASE f = named
    <3>1. i \in 1..n \/ i = n + 1
      BY <1>5, <1>6, <2>2 DEF n
    <3> QED  BY <1>6, <2>2, <3>1
  <2> QED  BY <2>1, <2>2
<1>13. Once'
  BY <1>11, <1>12 DEF FileInv, Once
<1>14. Earlier'
  <2>1. \A f \in Files : \A i \in DOMAIN contents[f] : \A h \in Writers :
           contents[f][i][1] = h => contents[f][i][2] <= count[h]
    BY DEF FileInv, Earlier
  <2> SUFFICES ASSUME NEW f \in Files, NEW i \in DOMAIN contents'[f], NEW h \in Writers,
                      contents'[f][i][1] = h
               PROVE  /\ contents'[f][i][2] <= count[h]
                      /\ wpc'[h] # "idle" => contents'[f][i][2] < count[h]
    BY <1>1 DEF Earlier
  <2>2. CASE i \in DOMAIN contents[f] /\ contents'[f][i] = contents[f][i]
    BY <1>2, <2>2 DEF FileInv, Earlier
  <2>3. CASE contents'[f][i] = m
    BY <1>2, <1>3, <2>3
  <2> QED  BY <1>12, <2>2, <2>3
<1>15. Kept'
  <2>1. \A f \in Files : \A i \in DOMAIN contents[f] :
           i \in DOMAIN contents'[f] /\ contents'[f][i] = contents[f][i]
    BY <1>5, <1>6 DEF n
  <2>2. n + 1 \in DOMAIN contents'[named] /\ contents'[named][n + 1] = m
    BY <1>5, <1>6 DEF n
  <2>3. \A x \in logged' : x \in logged \/ x = m
    BY <1>1
  <2> QED  BY <1>4, <2>1, <2>2, <2>3 DEF FileInv, Kept
<1> QED  BY <1>7, <1>8, <1>9, <1>10, <1>13, <1>14, <1>15 DEF FileInv

LEMMA FileNext ==
    ASSUME FileInv, [Next]_vars
    PROVE  FileInv'
<1>1. ASSUME UNCHANGED vars PROVE FileInv'
  <2>1. /\ UNCHANGED <<named, rotated, contents, fileWriter, open, maxLinesCurLines, dailyOpenDate>>
        /\ UNCHANGED <<mu, wpc, day, count, date, faults, restarts, logged, troubled, openedOn>>
    BY <1>1 DEF vars, diskVars, logVars, histVars
  <2>2. TypeOK'
    BY <2>1 DEF FileInv, TypeOK
  <2>3. (FilesInOrder /\ Current /\ Opened /\ Once /\ Kept)'
    BY <2>1, FilesAlone DEF diskVars, logVars
  <2>4. Locked' /\ Began' /\ Earlier' /\ Bounded'
    BY <2>1 DEF FileInv, Locked, Began, Earlier, Bounded, Passed, N
  <2> QED  BY <2>2, <2>3, <2>4 DEF FileInv
<1>2. ASSUME NEW g \in Writers, Write(g) PROVE FileInv'
  <2>1. CASE open
    BY <1>2, <2>1, WriteOpenInv
  <2>2. CASE ~open
    <3>1. /\ wpc[g] = "write" /\ wpc' = [wpc EXCEPT ![g] = "idle"]
          /\ UNCHANGED <<diskVars, logVars, mu, day, count, date, faults, restarts, histVars>>
      BY <1>2, <2>2 DEF Write, diskVars, logVars, histVars
    <3> QED  BY <3>1, WriteRefusedInv
  <2> QED  BY <2>1, <2>2
<1>3. ASSUME NEW g \in Writers,
             \/ Begin(g) \/ Test(g) \/ RotateNot(g) \/ RotateRename(g) \/ RotateReopen(g)
      PROVE  FileInv'
  BY <1>3, BeginInv, TestInv, RotateNotInv, RotateRenameInv, RotateReopenInv
<1> QED  BY <1>1, <1>2, <1>3, MidnightInv, RestartInv DEF Next, AllWritten

\* The files, the writer's state and where each goroutine is fit together at
\* every moment, also between a rename and the opening that follows it.
THEOREM FileInvariant == Spec => []FileInv
<1>1. Init => FileInv
  BY InitInv
<1>2. FileInv /\ [Next]_vars => FileInv'
  BY FileNext
<1> QED  BY <1>1, <1>2, PTL DEF Spec

\* Every variable keeps its type.
THEOREM FileTypeCorrect == Spec => []TypeOK
<1>1. FileInv => TypeOK
  BY DEF FileInv
<1> QED  BY <1>1, FileInvariant, PTL

\* An open writer writes to the file of its name, whatever rotation failed at
\* whatever step (file.go:231-274).
THEOREM WritesGoToNamed == Spec => []WritesToNamed
<1>1. FileInv => WritesToNamed
  BY DEF FileInv, Current, WritesToNamed
<1> QED  BY <1>1, FileInvariant, PTL

\* Without trouble the unlocked test lets a file grow beyond its limit by less
\* lines than there are goroutines (file.go:157).
THEOREM LinesStayBounded == Spec => []LinesBounded
<1>1. FileInv => LinesBounded
  BY DEF FileInv, Bounded, LinesBounded, N
<1> QED  BY <1>1, FileInvariant, PTL

\* A file has no more lines than there are messages, as it has none twice.
LEMMA LinesFit ==
    ASSUME FileInv, NEW f \in Files
    PROVE  Len(contents[f]) <= MaxMsgs * N
<1> DEFINE s == contents[f]
<1>1. s \in Seq(Line) /\ Len(s) \in Nat /\ DOMAIN s = 1..Len(s)
  BY LinesAre DEF FileInv
<1>2. \A i \in 1..Len(s), j \in 1..Len(s) : s[i] = s[j] => i = j
  BY <1>1 DEF FileInv, Once
<1>3. s \in [1..Len(s) -> Line]
  BY <1>1
<1> HIDE DEF s
<1>4. s \in Injection(1..Len(s), Line)
  BY <1>2, <1>3 DEF Injection, IsInjective
<1>5. IsFiniteSet(1..Len(s)) /\ Cardinality(1..Len(s)) = Len(s)
  BY <1>1, FS_Interval
<1>6. IsFiniteSet(Line) /\ Cardinality(Line) = N * MaxMsgs
  <2>1. IsFiniteSet(1..MaxMsgs) /\ Cardinality(1..MaxMsgs) = MaxMsgs
    BY FS_Interval, Limits
  <2> QED  BY <2>1, Limits, FS_Product DEF Line, N
<1>7. Len(s) <= N * MaxMsgs
  BY <1>4, <1>5, <1>6, FS_Injection
<1>8. N * MaxMsgs = MaxMsgs * N
  BY Limits
<1> QED  BY <1>7, <1>8 DEF s

\* A line that was reported as written is never lost and never doubled:
\* through rotations, file operations that fail and restarts of the process.
THEOREM NothingIsLost == Spec => []NothingLost
<1>1. FileInv => NothingLost
  <2> SUFFICES ASSUME FileInv, NEW m \in logged
               PROVE  Cardinality(Places(m)) = 1
    BY DEF NothingLost
  <2> PICK f \in Files : \E i \in DOMAIN contents[f] : contents[f][i] = m
    BY DEF FileInv, Kept
  <2>1. PICK i \in DOMAIN contents[f] : contents[f][i] = m
    OBVIOUS
  <2>2. DOMAIN contents[f] = 1..Len(contents[f]) /\ Len(contents[f]) \in Nat
    BY LinesAre DEF FileInv
  <2>3. f \in Reachable
    BY <2>1, <2>2 DEF FileInv, FilesInOrder
  <2>4. MaxMsgs * N \in Nat
    BY Limits
  <2>5. i \in 1..(MaxMsgs * N)
    BY <2>2, <2>4, LinesFit
  <2>6. <<f, i>> \in Places(m)
    BY <2>1, <2>3, <2>5 DEF Places, N
  <2>7. \A p \in Places(m) : p = <<f, i>>
    <3> SUFFICES ASSUME NEW p \in Places(m) PROVE p = <<f, i>>
      OBVIOUS
    <3>1. PICK h \in Reachable, j \in 1..(MaxMsgs * N) : p = <<h, j>>
      BY DEF Places, N
    <3>2. h \in Files /\ j \in DOMAIN contents[h] /\ contents[h][j] = m
      BY <3>1 DEF Places, Reachable
    <3> QED  BY <2>1, <3>1, <3>2 DEF FileInv, Once
  <2>8. Places(m) = {<<f, i>>}
    BY <2>6, <2>7
  <2> QED  BY <2>8, FS_Singleton
<1> QED  BY <1>1, FileInvariant, PTL

\* No rotation without a cause, however many goroutines found the file full at
\* once: needRotate is called again under the lock (file.go:159).
THEOREM RotationsHaveCause == Spec => RotatesForCause
<1> DEFINE Caused == \A g \in Writers : wpc[g] = "rotate" /\ wpc'[g] = "reopen" =>
                        \/ Len(contents[named]) >= MaxLines \/ openedOn < date
                        \/ day[g] # Day(date)
<1>1. FileInv /\ [Next]_vars => [Caused]_vars
  <2> SUFFICES ASSUME FileInv, Next, NEW g \in Writers, wpc[g] = "rotate", wpc'[g] = "reopen"
               PROVE  \/ Len(contents[named]) >= MaxLines \/ openedOn < date
                      \/ day[g] # Day(date)
    BY Zenon
  <2>1. RotateRename(g)
    <3>1. \A h \in Writers : wpc' = [wpc EXCEPT ![h] = "reopen"] => h = g
      BY DEF FileInv, TypeOK
    <3>2. \A h \in Writers : \A to \in {"test", "rotate", "write", "idle"} :
             wpc' # [wpc EXCEPT ![h] = to]
      BY DEF FileInv, TypeOK
    <3>3. wpc' # wpc /\ wpc' # [h \in Writers |-> "idle"]
      OBVIOUS
    <3> QED  BY <3>1, <3>2, <3>3 DEF Next, Begin, Test, RotateNot, RotateRename, RotateReopen, Write,
                Midnight, Restart, AllWritten, vars
  <2>2. NeedRotate(day[g]) /\ named # Nil
    BY <2>1 DEF RotateRename
  <2>3. CASE maxLinesCurLines >= MaxLines
    BY <2>2, <2>3 DEF FileInv, Current
  <2>4. CASE day[g] # dailyOpenDate
    <3>1. dailyOpenDate = Day(openedOn) /\ openedOn \in 0..date /\ date \in Nat
      BY Limits DEF FileInv, Opened, TypeOK, Date
    <3> QED  BY <2>4, <3>1
  <2> QED  BY <2>2, <2>3, <2>4 DEF NeedRotate
<1>2. Spec => [][Next]_vars
  BY PTL DEF Spec
<1> QED  BY <1>1, <1>2, FileInvariant, PTL DEF RotatesForCause
=============================================================================
