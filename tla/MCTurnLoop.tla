----------------------------- MODULE MCTurnLoop -----------------------------
(* Two nested directories, one below the other, and small limits. *)
EXTENDS TurnLoop

MCDirOrder == <<"crates", "crates/core">>
MCAbove == [d \in {"crates", "crates/core"} |-> IF d = "crates" THEN {d} ELSE {"crates", d}]
Read == [tool |-> "read_file", dir |-> "crates/core"]
View == [tool |-> "view_image", dir |-> "none"]
SpawnCall == [tool |-> "spawn_agent", dir |-> "none"]
Invalid == [tool |-> "invalid", dir |-> "crates"]

MCPrior == <<UserEntry, [Entry("assistant") EXCEPT !.text = TRUE]>>
Source(n) == [kind |-> "source", size |-> n]
Blocked == [kind |-> "blocked", size |-> 0]
DisksOf(above, below) == {[d \in Dirs |-> IF d = "crates" THEN a ELSE b] : a \in above, b \in below}

Plan == [tools |-> {Read}, calls |-> 3, submissions |-> 1, attachments |-> {0}, messages |-> 0,
         forks |-> {"none"}, background |-> {FALSE}, disk |-> [d \in Dirs |-> MissingFile]]

(* Scopes alone, images alone, a child the parent waits for, and one beside it. *)
Scopes == {[Plan EXCEPT !.tools = {Read, Invalid}, !.disk = d] : d \in DisksOf({MissingFile, Source(3)}, {Source(2), Blocked})}
          \cup {[Plan EXCEPT !.submissions = 2, !.disk = d] : d \in DisksOf({MissingFile}, {Source(2)})}
Images == {[Plan EXCEPT !.tools = {View}, !.calls = 1, !.submissions = 2, !.attachments = {0, 1}],
           [Plan EXCEPT !.tools = {View}, !.calls = 2]}
Waited == {[Plan EXCEPT !.tools = {Read, SpawnCall}, !.calls = 2, !.forks = {"all"}, !.disk = d] :
             d \in DisksOf({MissingFile}, {Source(3)})}
Beside == {[Plan EXCEPT !.tools = {SpawnCall, Invalid}, !.calls = 2, !.forks = {"last"}, !.background = {TRUE}],
           [Plan EXCEPT !.tools = {SpawnCall}, !.calls = 1, !.forks = {"none"}, !.messages = 1]}
MCPlans == Scopes \cup Images \cup Waited \cup Beside
=============================================================================
