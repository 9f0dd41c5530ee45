------------------------------- MODULE FileLog -------------------------------
(***************************************************************************)
(* fileLogWriter: goroutines write lines through one adapter to one file,  *)
(* which is renamed and opened anew when it has MaxLines lines or the day  *)
(* has changed, and which a restarted process goes on appending to.        *)
(*                                                                         *)
(* needRotate is first called without the lock; the locked section of the  *)
(* rotation is cut once, between the rename and the opening, as the        *)
(* unlocked call may see its middle.  MaxSize is tested the same way as    *)
(* MaxLines and left out; deleteOldLog only removes files and is left out. *)
(***************************************************************************)
EXTENDS Integers, Sequences, FiniteSets

CONSTANTS
    Writers,      \* goroutines that log
    MaxLines,
    MaxNum,       \* rotated files of a day (999 in the code)
    DaysInMonth,  \* days are told apart by their number in the month
    MaxMsgs,      \* bound: messages of one goroutine
    MaxDate,      \* bound: days
    MaxFaults,    \* bound: file operations that fail
    MaxRestarts   \* bound: restarts of the process

ASSUME WritersAssumption == IsFiniteSet(Writers) /\ Writers # {}
ASSUME LimitsAssumption ==
    /\ {MaxLines, MaxNum, DaysInMonth} \subseteq Nat \ {0}
    /\ {MaxMsgs, MaxDate, MaxFaults, MaxRestarts} \subseteq Nat

Nil   == 0
Date  == 0..MaxDate
Files == 1..(1 + (MaxDate + 1) * MaxNum + MaxRestarts)

VARIABLES
    named,         \* what Filename leads to on the disk
    rotated,       \* and the names "<file>.<date>.<num>"
    contents,      \* the lines of each file
    fileWriter,    \* the file last opened
    open,          \* it was not closed since
    maxLinesCurLines, dailyOpenDate,
    mu,            \* holder of the writer's lock
    wpc, day,      \* where each goroutine is, and its d
    count,         \* messages it began to write
    date, faults, restarts,
    logged,        \* history: messages written without an error
    troubled,      \* history: a rotation returned an error
    openedOn       \* history: the date fileWriter was opened

diskVars == <<named, rotated, contents>>
logVars  == <<fileWriter, open, maxLinesCurLines, dailyOpenDate>>
histVars == <<logged, troubled, openedOn>>
vars == <<diskVars, logVars, mu, wpc, day, count, date, faults, restarts, histVars>>

Day(t) == t % DaysInMonth

\* The files that a name leads to; the next one to be created.
Reachable == {f \in Files : f = named \/ \E n \in DOMAIN rotated : rotated[n] = f}
NewFile   == 1 + Cardinality({f \in Files : f \in Reachable \/ contents[f] # <<>>})

\* Mutant: the lines of a file that is there already are not counted.
OpensUncounted(f) ==
    /\ named' = f
    /\ fileWriter' = f /\ open' = TRUE
    /\ maxLinesCurLines' = 0
    /\ dailyOpenDate' = Day(date)
    /\ openedOn' = date

\* createLogFile and initFd
Opens(f) ==
    /\ named' = f
    /\ fileWriter' = f /\ open' = TRUE
    /\ maxLinesCurLines' = Len(contents[f])
    /\ dailyOpenDate' = Day(date)
    /\ openedOn' = date

Init ==
    /\ named = 1
    /\ rotated = [n \in Date \X (1..MaxNum) |-> Nil]
    /\ contents = [f \in Files |-> <<>>]
    /\ fileWriter = 1 /\ open = TRUE
    /\ maxLinesCurLines = 0 /\ dailyOpenDate = 0
    /\ mu = {}
    /\ wpc = [g \in Writers |-> "idle"] /\ day = [g \in Writers |-> 0]
    /\ count = [g \in Writers |-> 0]
    /\ date = 0 /\ faults = 0 /\ restarts = 0
    /\ logged = {} /\ troubled = FALSE /\ openedOn = 0

NeedRotate(d) == maxLinesCurLines >= MaxLines \/ d # dailyOpenDate

-----------------------------------------------------------------------------
\* WriteMsg takes the time ...
Begin(g) ==
    /\ wpc[g] = "idle" /\ count[g] < MaxMsgs
    /\ count' = [count EXCEPT ![g] = @ + 1]
    /\ day' = [day EXCEPT ![g] = Day(date)]
    /\ wpc' = [wpc EXCEPT ![g] = "test"]
    /\ UNCHANGED <<diskVars, logVars, mu, date, faults, restarts, histVars>>

\* ... calls needRotate without the lock ...
Test(g) ==
    /\ wpc[g] = "test"
    /\ wpc' = [wpc EXCEPT ![g] = IF NeedRotate(day[g]) THEN "rotate" ELSE "write"]
    /\ UNCHANGED <<diskVars, logVars, mu, day, count, date, faults, restarts, histVars>>

FreeNums == {n \in 1..MaxNum : rotated[<<date, n>>] = Nil}

\* Mutant: the number is not looked for.
FirstNumber == 1

\* The next available number of the day.
NextNumber == CHOOSE n \in FreeNums : \A m \in FreeNums : n <= m

\* needRotate, now with the lock: no rotation is needed any more, or doRotate
\* finds no file or no free number.
RotateNot(g) ==
    /\ wpc[g] = "rotate" /\ mu = {}
    /\ \/ ~NeedRotate(day[g]) /\ UNCHANGED troubled
       \/ /\ NeedRotate(day[g])
          /\ named = Nil \/ FreeNums = {}
          /\ troubled' = TRUE
    /\ wpc' = [wpc EXCEPT ![g] = "write"]
    /\ UNCHANGED <<diskVars, logVars, mu, day, count, date, faults, restarts, logged, openedOn>>

\* Mutant: the file is not closed.
RenameUnclosed(g) ==
    /\ wpc[g] = "rotate" /\ mu = {}
    /\ NeedRotate(day[g]) /\ named # Nil /\ FreeNums # {}
    /\ rotated' = [rotated EXCEPT ![<<date, NextNumber>>] = named]
    /\ named' = Nil
    /\ mu' = {g}
    /\ wpc' = [wpc EXCEPT ![g] = "reopen"]
    /\ UNCHANGED <<contents, logVars, day, count, date, faults, restarts, histVars>>

\* Mutant: whether another goroutine has rotated is not tested again.
RenameUntested(g) ==
    /\ wpc[g] = "rotate" /\ mu = {}
    /\ named # Nil /\ FreeNums # {}
    /\ open' = FALSE
    /\ rotated' = [rotated EXCEPT ![<<date, NextNumber>>] = named]
    /\ named' = Nil
    /\ mu' = {g}
    /\ wpc' = [wpc EXCEPT ![g] = "reopen"]
    /\ UNCHANGED <<contents, fileWriter, maxLinesCurLines, dailyOpenDate, day, count, date,
                   faults, restarts, histVars>>

\* The file is closed and renamed; the rename may fail.
RotateRename(g) ==
    /\ wpc[g] = "rotate" /\ mu = {}
    /\ NeedRotate(day[g]) /\ named # Nil /\ FreeNums # {}
    /\ open' = FALSE
    /\ \/ /\ rotated' = [rotated EXCEPT ![<<date, NextNumber>>] = named]
          /\ named' = Nil
          /\ UNCHANGED <<faults, troubled>>
       \/ /\ faults < MaxFaults /\ faults' = faults + 1
          /\ troubled' = TRUE
          /\ UNCHANGED <<rotated, named>>
    /\ mu' = {g}
    /\ wpc' = [wpc EXCEPT ![g] = "reopen"]
    /\ UNCHANGED <<contents, fileWriter, maxLinesCurLines, dailyOpenDate, day, count, date,
                   restarts, logged, openedOn>>

\* startLogger; the opening may fail.
RotateReopen(g) ==
    /\ wpc[g] = "reopen"
    /\ \/ /\ Opens(IF named = Nil THEN NewFile ELSE named)
          /\ UNCHANGED <<faults, troubled>>
       \/ /\ faults < MaxFaults /\ faults' = faults + 1
          /\ troubled' = TRUE
          /\ UNCHANGED <<named, logVars, openedOn>>
    /\ mu' = {}
    /\ wpc' = [wpc EXCEPT ![g] = "write"]
    /\ UNCHANGED <<rotated, contents, day, count, date, restarts, logged>>

\* The line is written under the lock; a closed file refuses it.
Write(g) ==
    /\ wpc[g] = "write" /\ mu = {}
    /\ IF open
       THEN /\ contents' = [contents EXCEPT ![fileWriter] = Append(@, <<g, count[g]>>)]
            /\ maxLinesCurLines' = maxLinesCurLines + 1
            /\ logged' = logged \cup {<<g, count[g]>>}
       ELSE UNCHANGED <<contents, maxLinesCurLines, logged>>
    /\ wpc' = [wpc EXCEPT ![g] = "idle"]
    /\ UNCHANGED <<named, rotated, fileWriter, open, dailyOpenDate, mu, day, count, date,
                   faults, restarts, troubled, openedOn>>

Midnight ==
    /\ date < MaxDate
    /\ date' = date + 1
    /\ UNCHANGED <<diskVars, logVars, mu, wpc, day, count, faults, restarts, histVars>>

\* The process ends anywhere and is started again: Init opens Filename.
Restart ==
    /\ restarts < MaxRestarts
    /\ restarts' = restarts + 1
    /\ Opens(IF named = Nil THEN NewFile ELSE named)
    /\ mu' = {}
    /\ wpc' = [g \in Writers |-> "idle"]
    /\ UNCHANGED <<rotated, contents, day, count, date, faults, logged, troubled>>

\* Only for the bounded model: every goroutine wrote its messages.
AllWritten == /\ \A g \in Writers : wpc[g] = "idle" /\ count[g] = MaxMsgs
              /\ UNCHANGED vars

Next ==
    \/ \E g \in Writers : \/ Begin(g) \/ Test(g) \/ RotateNot(g) \/ RotateRename(g)
                          \/ RotateReopen(g) \/ Write(g)
    \/ Midnight \/ Restart \/ AllWritten

Spec == Init /\ [][Next]_vars
-----------------------------------------------------------------------------
\* Every variable keeps its type: a file is opened among Files, a number of a
\* day is never used beyond MaxNum.
TypeOK ==
    /\ named \in Files \cup {Nil}
    /\ rotated \in [Date \X (1..MaxNum) -> Files \cup {Nil}]
    /\ contents \in [Files -> Seq(Writers \X (1..MaxMsgs))]
    /\ fileWriter \in Files /\ open \in BOOLEAN
    /\ maxLinesCurLines \in Nat /\ dailyOpenDate \in 0..(DaysInMonth - 1)
    /\ mu \in SUBSET Writers
    /\ wpc \in [Writers -> {"idle", "test", "rotate", "reopen", "write"}]
    /\ day \in [Writers -> 0..(DaysInMonth - 1)] /\ count \in [Writers -> 0..MaxMsgs]
    /\ date \in Date /\ faults \in Nat /\ restarts \in Nat
    /\ logged \subseteq Writers \X (1..MaxMsgs)
    /\ troubled \in BOOLEAN /\ openedOn \in 0..date

\* Where a line stands in the files that have a name.
Places(m) == {p \in Reachable \X (1..(MaxMsgs * Cardinality(Writers))) :
                 p[2] \in DOMAIN contents[p[1]] /\ contents[p[1]][p[2]] = m}

\* A line that WriteMsg reported as written is in one file that has a name,
\* and there once, whatever was rotated, failed or restarted since.
NothingLost == \A m \in logged : Cardinality(Places(m)) = 1

\* Without a failed rotation a file has at most the lines by which every
\* other goroutine may have passed the unlocked test before it was full;
\* a restart takes the lines that are there into account.
LinesBounded ==
    ~troubled => \A f \in Files : Len(contents[f]) < MaxLines + Cardinality(Writers)

\* Outside of a rotation an open writer writes to the file of that name, not
\* to one that was renamed, and knows how many lines it has.
WritesToNamed ==
    mu = {} /\ open => fileWriter = named /\ maxLinesCurLines = Len(contents[named])

\* file.go:260: "even if occurs error, we MUST guarantee to restart new
\* logger": a rotation in which no file operation fails leaves the file open.
RestartsLogger ==
    [][\A g \in Writers :
         \/ wpc[g] = "rotate" /\ wpc'[g] = "write"
         \/ wpc[g] = "reopen" /\ wpc'[g] = "write" /\ faults' = faults
         => open']_vars

\* A file is renamed because it has MaxLines lines or was opened on an earlier
\* day, however many goroutines found the old one full at once (file.go:24-32,
\* "at line" and "daily").  The exception: a goroutine that took its time
\* before midnight and rotates after it takes the new day for a change too.
RotatesForCause ==
    [][\A g \in Writers : wpc[g] = "rotate" /\ wpc'[g] = "reopen" =>
         \/ Len(contents[named]) >= MaxLines \/ openedOn < date
         \/ day[g] # Day(date)]_vars
=============================================================================
