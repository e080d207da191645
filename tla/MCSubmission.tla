---------------------------- MODULE MCSubmission ----------------------------
(***************************************************************************)
(* Submission on a task in the shape of the repository's: a src directory  *)
(* open to the agent, a public test and an installed package that are not. *)
(* src/a.ts is a file that may become a directory; src/d.ts, less likely,  *)
(* is a directory that may become a file.                                  *)
(***************************************************************************)
EXTENDS Submission

\* Paths in the order the export sorts them in.
Sorted == <<"node_modules/d", "src/a.ts", "src/a.ts/b.ts", "src/d.ts", "src/d.ts/e.ts",
            "src/n.md", "test/t.mjs">>

MCPosition == [p \in Paths |-> CHOOSE i \in 1..Len(Sorted) : Sorted[i] = p]

MCUnder == {<<"src/a.ts/b.ts", "src/a.ts">>, <<"src/d.ts/e.ts", "src/d.ts">>}
=============================================================================
