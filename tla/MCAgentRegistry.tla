---------------------------- MODULE MCAgentRegistry ----------------------------
(***************************************************************************)
(* The settings of AgentRegistry that TLC explores.  Agents are numbered   *)
(* in the order in which they are registered, so they are not symmetric.   *)
(* The same run explores the mutexes of the core state (StateLocks): the   *)
(* two specifications share nothing, and a behaviour is one of either.     *)
(***************************************************************************)
EXTENDS AgentRegistry, StateLocks

CONSTANTS Sweeper, Owner

Setting == [agents |-> 3, live |-> 2, mailbox |-> 1, recent |-> 1, turns |-> 0,
            messages |-> 0, children |-> 1, spawners |-> {Main}, waiters |-> {},
            stoppable |-> {}, discarders |-> {}]

(* Two results for one place and one recent entry; two agents that are     *)
(* waited for in their turn and share one recent entry; a chain of three,  *)
(* all live; one agent with two turns and a message, stopped and discarded; *)
(* two agents that a discard overtakes; the same under shutdown as well;   *)
(* four agents one after the other, of which one pins its record until the *)
(* recent list is beyond its limit.                                        *)
Crowded == {[Setting EXCEPT !.agents = 2, !.children = 2, !.waiters = {Main}],
            [Setting EXCEPT !.agents = 2, !.children = 2, !.live = 1],
            [Setting EXCEPT !.agents = 2, !.children = 2, !.live = 1, !.mailbox = 0],
            [Setting EXCEPT !.agents = 1, !.waiters = {Main}, !.stoppable = {Main}]}
Nested  == [Setting EXCEPT !.live = 3, !.recent = 3, !.spawners = {Main, 1, 2}]
Stopped == [Setting EXCEPT !.agents = 1, !.live = 1, !.mailbox = 0, !.turns = 2,
                           !.messages = 1, !.stoppable = {Main, 1},
                           !.discarders = {Sweeper}]
Swept   == [Setting EXCEPT !.agents = 2, !.children = 2, !.discarders = {Sweeper}]
Ending  == [Setting EXCEPT !.agents = 2, !.children = 2, !.live = 1,
                           !.discarders = {Sweeper, Owner}]
Pinning == [Setting EXCEPT !.agents = 4, !.children = 4, !.live = 1, !.recent = 3]
MCSettings == Crowded \cup {Nested, Stopped, Swept, Ending, Pinning}

VARIABLE part  \* which of the two specifications the behaviour is one of

PartsInit == /\ Init /\ LocksInit /\ part \in {"agents", "locks"}
             /\ part = "locks" => setting = Nested
PartsNext == \/ part = "agents" /\ Next /\ UNCHANGED <<part, lockVars>>
             \/ part = "locks" /\ LocksNext /\ UNCHANGED <<part, vars>>
PartsSpec == PartsInit /\ [][PartsNext]_<<part, lockVars, vars>>

----------------------------------------------------------------------------
(* What a child is given, over every parent, role, request and world of a  *)
(* small instance: two providers with a model each, two tools, histories   *)
(* of up to four entries.                                                  *)

Given == INSTANCE AgentProfiles

Plain(provider) == [provider |-> provider, name |-> "m", thinking |-> {}]
Deep(provider) == [provider |-> provider, name |-> "m", thinking |-> {"high"}]
Chains == {<<>>, <<Plain("a")>>, <<Plain("b"), Plain("a")>>, <<Deep("b"), Deep("a"), Plain("b")>>,
           <<Plain("a"), Deep("a")>>}
ToolSets == {{}, {{}}, {{"read"}}, {{"read", "write"}}}
Histories == UNION {[1..n -> {"user", "assistant"}] : n \in 0..4}
LastTurns(n) == [turns |-> "last", last |-> n]
Forks == {[turns |-> which, last |-> 1] : which \in {"none", "all", "last"}}
Roles == {[default |-> [valid |-> TRUE, models |-> {}, tools |-> {}],
           reviewer |-> [valid |-> ok, models |-> models, tools |-> tools]] :
           ok \in BOOLEAN, models \in {{c} : c \in Chains \ {<<>>}}, tools \in ToolSets}
Worlds == {[present |-> present, cached |-> {[provider |-> "a", name |-> "m"]},
            fetch |-> [a |-> {}, b |-> b], thinks |-> thinks, levels |-> [m |-> {"high"}]] :
            present \in SUBSET {"a", "b"}, thinks \in {{}, {"a"}},
            b \in {{}, {{[provider |-> "b", name |-> "m"]}}}}

\* fork_prefix: the child starts from the last n user turns of its parent, whole,
\* or from everything when there are fewer.
ASSUME ForkIsLastTurns ==
  \A prefix \in Histories, n \in 1..3 :
    LET forked == Given!ForkPrefix(prefix, LastTurns(n))
        wanted == IF Cardinality(Given!Users(prefix)) < n THEN Cardinality(Given!Users(prefix)) ELSE n
    IN /\ IsSuffix(forked, prefix)
       /\ Cardinality(Given!Users(forked)) = wanted
       /\ IF Cardinality(Given!Users(prefix)) < n THEN forked = prefix ELSE Head(forked) = "user"

\* inherited_or_role_profiles: a role's chain is put in another order, and no
\* profile of it is lost.
ASSUME ChainIsPermuted ==
  \A chain \in Chains \ {<<>>} :
    LET result == Given!RoleChain([profile |-> Plain("a")], chain) IN
    Given!Failed(result) \/ (ToSet(result.chain) = ToSet(chain) /\ Len(result.chain) = Len(chain)
                       /\ (Len(chain) > 1 => result.chain[1].provider = "a"))

\* spawn: a child never may call a tool its parent may not, runs only on
\* profiles that are valid, at least one, and takes all of its parent or chooses.
ASSUME ChildIsWithinParent ==
  \A tools \in ToolSets, roles \in Roles, world \in Worlds, fork \in Forks,
     type \in {{}, {"reviewer"}, {"nobody"}}, model \in {{}} \cup {{c} : c \in Chains} :
    LET parent == [role |-> "main", profile |-> Plain("a"), tools |-> tools,
                   history |-> <<"user", "assistant">>]
        given == Given!Prepare(parent, roles, world, [agent_type |-> type, model |-> model, fork |-> fork])
    IN Given!Failed(given) \/
         /\ \A tool \in {"read", "write"} :
              Given!MayCall(given.tools, tool) => Given!MayCall(tools, tool)
         /\ given.profiles # <<>> /\ \A p \in ToSet(given.profiles) : Given!Valid(world, p)
         /\ fork.turns = "all" => /\ given.role = "main" /\ given.tools = tools
                              /\ given.profiles = <<Plain("a")>>
                              /\ given.history = parent.history
================================================================================
