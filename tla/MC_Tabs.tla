---- MODULE MC_Tabs ----
EXTENDS Tabs
\* 1 works in web and conducts a team whose board has a directory of its
\* own; 2 works in the same directory, or in one below it that has the same
\* name, as a worktree has, or the Hub was not told where.
MCLayouts == {<<"web", "web">>, <<"web", "web/web">>, <<"web", NoDir>>}
MCBase == [d \in {"web", "web/web", "board"} |-> IF d = "board" THEN d ELSE "web"]
MCBoard == <<"board", NoDir>>
MCUnder == {<<d, d>> : d \in DOMAIN MCBase} \cup {<<"web/web", "web">>}
====
