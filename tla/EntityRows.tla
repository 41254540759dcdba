----------------------------- MODULE EntityRows -----------------------------
(***************************************************************************)
(* What Repository.save() of TypeORM does with an entity that a handler    *)
(* loaded before, outside a transaction: it reads the row again, compares  *)
(* column by column and updates the columns that differ.  SELECT and       *)
(* UPDATE are two statements; the columns are those of the SELECT, their   *)
(* values those of the entity.                                             *)
(***************************************************************************)

\* The columns the UPDATE of a save() sets.
Changed(entity, row) == {c \in DOMAIN row : entity[c] # row[c]}

\* The row after that UPDATE.
Written(entity, row, columns) ==
    [c \in DOMAIN row |-> IF c \in columns THEN entity[c] ELSE row[c]]
=============================================================================
