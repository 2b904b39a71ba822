------------------------- MODULE MCMigrationRunner -------------------------
(***************************************************************************)
(* Instances of MigrationRunner for TLC: an old release with one migration *)
(* and a new release that adds a second.                                   *)
(***************************************************************************)
EXTENDS MigrationRunner, TLC

CONSTANTS old, new, c1, c2

MCRelease == (old :> <<c1>>) @@ (new :> <<c1, c2>>)

Row(v, c) == [version |-> v, checksum |-> c]

Rows(table, rows) ==
    [table |-> table, rows |-> rows, ddl |-> {rows[k] : k \in DOMAIN rows}]

Empty == Rows("absent", <<>>)

\* A first start, an upgrade, and a database that is already current.
Sound == {Empty, Rows("complete", <<Row(1, c1)>>),
          Rows("complete", <<Row(1, c1), Row(2, c2)>>)}

\* Restored incompletely or edited by hand: no rows, other columns, another
\* checksum, a gap, a blank checksum, and objects without the table.
Damaged == {Rows("complete", <<>>), Rows("partial", <<Row(1, c1)>>),
            Rows("complete", <<Row(1, c2)>>), Rows("complete", <<Row(1, c2), Row(2, c2)>>),
            Rows("complete", <<Row(2, c1)>>),
            Rows("complete", <<Row(1, c1), Row(2, Blank)>>),
            [Empty EXCEPT !.ddl = {Row(1, c1)}]}

AnySchema == Sound \cup Damaged

FirstStart == {Empty}

\* Which of its sessions an instance uses makes no difference.
MCSymmetry == Permutations(Slots)
=============================================================================
