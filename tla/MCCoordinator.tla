------------------------------ MODULE MCCoordinator ----------------------------
(* The instance of Coordinator that TLC checks. *)
EXTENDS Coordinator, TLC

CONSTANTS h1, h2, o1, a1, code, ci, own, foreign

MCHeads == {h1, h2}

\* The second head also touches a protected path, which only the amendment
\* authorizes; the other pull request touches the code.
MCFilesOf == h1 :> {code} @@ h2 :> {code, ci}
MCProtected == {ci}
MCOthers == {o1}
MCOtherFiles == o1 :> {code}
MCScopes == {[paths |-> {code}, protected |-> {}],
             [paths |-> {}, protected |-> {}]}
MCStartScopes == {[paths |-> {code}, protected |-> {}]}
MCAmendments == {a1}
MCAmendedPaths == a1 :> {ci}

Says(id, h, kind, verdict) ==
  [id |-> id, head |-> h, kind |-> kind, verdict |-> verdict, content |-> TRUE]
General == Says(1, h1, "general", "clean")
Blocked == Says(2, h1, "general", "blocked")
Scope2 == Says(3, h2, "scope-security", "clean")
Race2 == Says(4, h2, "correctness-race", "clean")
Empty == [Says(5, h1, "general", "clean") EXCEPT !.content = FALSE]

MCReviews == {General, Blocked, Scope2, Race2}
MCStartReviews == {{General}, {Scope2, Race2}}
EmptyReviews == {Empty, Blocked}
EmptyStart == {{}}

\* The second head carries the definitions the default branch moves to.
MCWorkflowsOf == h1 :> own @@ h2 :> own
MCBaseWorkflows == <<own, foreign>>

================================================================================
