---------------------------- MODULE AgentServer ----------------------------
(***************************************************************************)
(* usk-mcp: the tools an agent works a workbook with.  The server holds a  *)
(* session, a journal of the batches the agent applied and the last        *)
(* preview.  Tool calls are atomic: one request is handled at a time.      *)
(* Between two of them other authors' ops may be integrated.               *)
(*                                                                         *)
(* The session is one column of rows, its cells a number or a formula that *)
(* copies another row.  The session's own rules (EditSession) are here     *)
(* with ops applied as they come: each command is one undo group, an undo  *)
(* is refused where another author's write is newer.  An ordinal counts    *)
(* live rows from 1.  A version is the workbook it is the hash of.         *)
(***************************************************************************)
EXTENDS Integers, FiniteSets, SequencesExt, FiniteSetsExt

CONSTANTS
    Numbers,        \* numbers an edit writes
    Batches,        \* the edit batches the agent may send
    Seeded,         \* rows of the workbook it starts from
    MaxRows,        \* bound: rows ever inserted
    MaxGrowth,      \* rows one call may add (MAX_GROWTH_PER_CALL)
    MaxEdits,       \* edits one call may hold (MAX_EDITS_PER_CALL)
    BlastRadius,    \* cells changed that call for a preview
    MaxSteps        \* bound: edits, undos and foreign writes

VARIABLES
    book,       \* the session
    journal,    \* batches to undo: groups each; for the properties also what
                \* was there before and whether others interfered since
    preview,    \* the pending preview, or NoPreview
    told,       \* what the agent was answered last: version, hash, its request,
                \* and whether the workbook has stayed as it was
    steps

vars == <<book, journal, preview, told, steps>>

\* What a cell holds; in an edit, a copy names its precedent by ordinal.
Contents == [kind : {"blank", "number"}, n : Int] \union [kind : {"copy"}, n : Nat \ {0}]
Edits == [kind : {"edit"}, at : Nat \ {0}, what : Contents]

ASSUME AgentAssumption ==
    /\ Numbers \subseteq Int
    /\ Batches \subseteq Seq(Edits)
    /\ {Seeded, MaxGrowth, MaxEdits, MaxSteps} \subseteq Nat

Blank == [kind |-> "blank", n |-> 0]
Num(n) == [kind |-> "number", n |-> n]
Copy(row) == [kind |-> "copy", n |-> row]
NoPreview == [hash |-> <<>>, changed |-> -1]
NoQuote == <<>>

\* A session: rows ever inserted in order, those deleted, per row its content,
\* who wrote it last and which of the two ever did, and the undo groups.
Live(b) ==
    LET live[i \in 0 .. Len(b.rows)] ==
            IF i = 0 THEN <<>>
            ELSE IF b.rows[i] \in b.gone THEN live[i - 1] ELSE Append(live[i - 1], b.rows[i])
    IN live[Len(b.rows)]
NewBook ==
    [rows |-> [i \in 1 .. Seeded |-> i], gone |-> {},
     content |-> [r \in 1 .. Seeded |-> Num(0)],
     winner |-> [r \in 1 .. Seeded |-> "other"],
     wrote |-> [r \in 1 .. Seeded |-> {"other"}],
     undo |-> <<>>]

\* What the state hash tells apart.
Hash(b) == <<[i \in DOMAIN Live(b) |-> <<Live(b)[i], b.content[Live(b)[i]]>>]>>

\* What a cell shows: a copy follows its row, to an error when that is gone or
\* the copies go round.  The copies are those of the calculation graph, which
\* only an insertion, a deletion or a formula rebuilds: a value written over
\* a copy leaves the cell showing what the copy reads.
RefError == -1
CircError == -2
Shown(b, graph, row) ==
    LET follow(r) == IF graph[r].kind = "copy" /\ r \notin b.gone THEN graph[r].n ELSE r
        end == FoldLeft(LAMBDA r, i : follow(r), row, b.rows)
    IN IF end \in b.gone THEN RefError
       ELSE IF graph[end].kind = "copy" THEN CircError
       ELSE b.content[end].n

\* The non-blank cells a reader sees, by ordinal.
Snapshot(b, graph) ==
    LET live == Live(b)
    IN [i \in {j \in DOMAIN live : Blank # b.content[live[j]] \/ graph[live[j]].kind = "copy"} |->
            Shown(b, graph, live[i])]

-----------------------------------------------------------------------------
(* Commands of the session, each one undo group.                           *)

Write(b, row, content, who) ==
    [b EXCEPT !.content[row] = content, !.winner[row] = who, !.wrote[row] = @ \union {who}]

Insert(b) ==
    LET id == Len(b.rows) + 1
    IN [rows |-> Append(b.rows, id), gone |-> b.gone,
        content |-> Append(b.content, Blank),
        winner |-> Append(b.winner, "none"),
        wrote |-> Append(b.wrote, {}),
        undo |-> Append(b.undo, [kind |-> "inserted", row |-> id, prior |-> Blank])]

\* An edit names its cell, and a formula its precedent, by ordinal.
Fits(b, e) ==
    /\ e.at <= Len(Live(b))
    /\ e.what.kind = "copy" => e.what.n <= Len(Live(b))

\* MUTANT of Perform: an undo of it clears the cell.
PerformForgetting(b, e) ==
    LET row == Live(b)[e.at]
        content == IF e.what.kind = "copy" THEN Copy(Live(b)[e.what.n]) ELSE e.what
    IN [Write(b, row, content, "agent") EXCEPT
            !.undo = Append(@, [kind |-> "wrote", row |-> row, prior |-> Blank])]

Perform(b, e) ==
    LET row == Live(b)[e.at]
        content == IF e.what.kind = "copy" THEN Copy(Live(b)[e.what.n]) ELSE e.what
    IN [Write(b, row, content, "agent") EXCEPT
            !.undo = Append(@, [kind |-> "wrote", row |-> row, prior |-> b.content[row]])]

\* Session::apply, command by command: the first that cannot be bound stops
\* the batch and leaves what was applied before it.
Execute(run, e) ==
    IF ~ run.ok THEN run
    ELSE IF e.kind = "grow" THEN [run EXCEPT !.book = Insert(@)]
    ELSE IF Fits(run.book, e) THEN [run EXCEPT !.book = Perform(@, e)]
    ELSE [run EXCEPT !.ok = FALSE]

Run(b, commands) == FoldLeft(Execute, [ok |-> TRUE, book |-> b], commands)

\* MUTANT of Blocked: rows are taken back whoever wrote in them.
BlockedCellsOnly(b, g) == g.kind = "wrote" /\ b.winner[g.row] # "agent"

\* Session::undo: the newest group, unless another author would lose by it.
Blocked(b, g) ==
    IF g.kind = "wrote" THEN b.winner[g.row] # "agent"
    ELSE "other" \in b.wrote[g.row]

UndoGroup(b) ==
    IF b.undo = <<>> THEN b
    ELSE LET g == Last(b.undo)
             rest == [b EXCEPT !.undo = Front(@)]
         IN IF Blocked(b, g) THEN rest
            ELSE IF g.kind = "wrote" THEN Write(rest, g.row, g.prior, "agent")
            ELSE [rest EXCEPT !.gone = @ \union {g.row}]

UndoGroups(b, n) == FoldLeft(LAMBDA c, i : UndoGroup(c), b, [i \in 1 .. n |-> i])

-----------------------------------------------------------------------------
(* What every mutating tool does first.                                    *)

\* The rows a batch needs before its cells exist.
Wanted(edits) == Max({0} \union {edits[i].at : i \in DOMAIN edits})
Missing(b, edits) == Max({0, Wanted(edits) - Len(Live(b))})
Growth(b, edits) ==
    [i \in 1 .. Missing(b, edits) |-> [kind |-> "grow", at |-> 0, what |-> Blank]]
Commands(b, edits) == Growth(b, edits) \o edits

\* MUTANTS of Accepted: no trial on a copy; the growth is not counted.
AcceptedUntried(b, edits) ==
    /\ Missing(b, edits) <= MaxGrowth
    /\ Commands(b, edits) # <<>>
    /\ Len(Commands(b, edits)) <= MaxEdits

AcceptedUncounted(b, edits) ==
    /\ Missing(b, edits) <= MaxGrowth
    /\ edits # <<>> /\ Len(edits) <= MaxEdits
    /\ Run(b, Commands(b, edits)).ok

\* Refused before anything is applied: too much growth, too many edits, or an
\* edit that fails on a scratch copy of the log.
Accepted(b, edits) ==
    LET commands == Commands(b, edits)
    IN /\ Missing(b, edits) <= MaxGrowth
       /\ commands # <<>>
       /\ Len(commands) <= MaxEdits
       /\ Run(b, commands).ok

\* Commands after which the calculation graph is rebuilt.
Structural(commands) ==
    \E i \in DOMAIN commands : commands[i].kind = "grow" \/ commands[i].what.kind = "copy"

\* Cells shown after that were not shown the same before: a cell that went
\* blank is not among them.
Changed(before, after) ==
    Cardinality({i \in DOMAIN after : i \notin DOMAIN before \/ before[i] # after[i]})

\* The cells a batch changes, on a scratch session just built from the log.
Impact(edits, after) ==
    LET graph == IF Structural(Commands(book, edits)) THEN after.content ELSE book.content
    IN Changed(Snapshot(book, book.content), Snapshot(after, graph))

-----------------------------------------------------------------------------
Init ==
    /\ book = NewBook
    /\ journal = <<>>
    /\ preview = NoPreview
    /\ told = [version |-> NoQuote, hash |-> NoQuote, edits |-> <<>>, fresh |-> FALSE]
    /\ steps = 0

Step == steps < MaxSteps /\ steps' = steps + 1

\* Every op moves the workbook on.
Moved == told' = [told EXCEPT !.fresh = FALSE]

\* MUTANT of PreviewEdits: simulated without the growth.
PreviewUngrown(edits) ==
    /\ Accepted(book, edits)
    /\ LET after == Run(book, edits).book
       IN /\ preview' = [hash |-> Hash(after), changed |-> Impact(edits, after)]
          /\ told' = [version |-> Hash(book), hash |-> Hash(after), edits |-> edits, fresh |-> TRUE]
    /\ UNCHANGED <<book, journal, steps>>

\* preview_edits: simulated on a scratch session, only the answer is kept.
PreviewEdits(edits) ==
    /\ Accepted(book, edits)
    /\ LET after == Run(book, Commands(book, edits)).book
       IN /\ preview' = [hash |-> Hash(after), changed |-> Impact(edits, after)]
          /\ told' = [version |-> Hash(book), hash |-> Hash(after), edits |-> edits, fresh |-> TRUE]
    /\ UNCHANGED <<book, journal, steps>>

\* A pending preview of a large edit must be quoted; a quoted hash is checked
\* whenever there is a preview to check it against.
Evidence(given) ==
    /\ preview.changed > BlastRadius => given = preview.hash
    /\ given # NoQuote /\ preview # NoPreview => given = preview.hash

\* apply_edits: the batch runs after every check, and the journal records how
\* many groups to undo.  A failure on the way leaves no record.
ApplyEdits(edits, expected, given) ==
    /\ expected # NoQuote => expected = Hash(book)
    /\ Accepted(book, edits)
    /\ Evidence(given)
    /\ Step
    /\ LET commands == Commands(book, edits)
           run == Run(book, commands)
       IN /\ book' = run.book
          /\ IF run.ok
             THEN /\ journal' = Append(journal, [groups |-> Len(commands), before |-> book,
                                              disturbed |-> FALSE])
                  /\ preview' = NoPreview
             ELSE UNCHANGED <<journal, preview>>
    /\ Moved

\* undo: the newest batch as a unit.
Undo ==
    /\ journal # <<>>
    /\ Step
    /\ book' = UndoGroups(book, Last(journal).groups)
    /\ journal' = Front(journal)
    /\ Moved
    /\ UNCHANGED preview

\* Another author's op arrives (Session::integrate), newest of all.
Foreign(after) ==
    /\ Step
    /\ book' = after
    /\ journal' = [i \in DOMAIN journal |-> [journal[i] EXCEPT !.disturbed = TRUE]]
    /\ Moved
    /\ UNCHANGED preview

ForeignWrite(row, n) == Foreign(Write(book, row, Num(n), "other"))
ForeignDelete(row) == Foreign([book EXCEPT !.gone = @ \union {row}])

Next ==
    \/ \E edits \in Batches : PreviewEdits(edits)
    \/ \E edits \in Batches, expected \in {NoQuote, told.version}, given \in {NoQuote, told.hash} :
            Len(book.rows) < MaxRows /\ ApplyEdits(edits, expected, given)
    \/ Undo
    \/ \E row \in ToSet(Live(book)), n \in Numbers : ForeignWrite(row, n)
    \/ \E row \in ToSet(Live(book)) : ForeignDelete(row)

Spec == Init /\ [][Next]_vars

-----------------------------------------------------------------------------
(* Properties.                                                             *)

TypeOK ==
    /\ Len(book.rows) = Len(book.content)
    /\ book.gone \subseteq ToSet(book.rows)
    /\ \A i \in DOMAIN journal : journal[i].groups \in 1 .. MaxEdits
    /\ steps \in 0 .. MaxSteps

\* The session's undo stack holds exactly the journal's groups: no call leaves
\* half a batch behind, and no undo takes a group of another batch
\* (apply_edits, validate, undo).
JournalIsUndoStack ==
    Len(book.undo) = FoldLeft(LAMBDA n, b : n + b.groups, 0, journal)

\* Undoing a batch nobody interfered with, after any batches above it have
\* been undone, brings back the workbook the agent found, grown rows gone.
UndoRestores ==
    [][journal # <<>> /\ journal' = Front(journal) /\ ~ Last(journal).disturbed
        => Hash(book') = Hash(Last(journal).before)]_vars

\* An undo takes nothing away from another author: neither what a cell of
\* theirs holds nor a row they ever wrote in.
UndoSparesOthers ==
    [][journal # <<>> /\ journal' = Front(journal)
        => /\ \A r \in DOMAIN book.content :
                book.winner[r] = "other" => book'.content[r] = book.content[r]
           /\ \A r \in book'.gone \ book.gone : "other" \notin book.wrote[r]]_vars

\* What was previewed is what happens: while the workbook is where it was
\* simulated, whatever was previewed or read in between, the batch may run
\* quoting its hash and ends at that hash.  (Where only the version is the
\* same, a row since grown and undone has used up the identity it foretold.)
PreviewForetells ==
    [][ApplyEdits(told.edits, NoQuote, told.hash) /\ told.fresh
        => Hash(book') = told.hash]_vars
=============================================================================
