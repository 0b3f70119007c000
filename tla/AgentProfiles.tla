------------------------------ MODULE AgentProfiles ------------------------------
(***************************************************************************)
(* core/agents/profiles.rs and the preparation of spawn in                 *)
(* core/agents/spawn.rs: what a child agent is given before it is          *)
(* registered - its role, the chain of model profiles it may run on, the   *)
(* part of its parent's history it starts from and the tools it may call.  *)
(*                                                                         *)
(* An Option is a set of no or one element.  Selectors and role files are  *)
(* parsed elsewhere: a requested selector is a profile or Unparsable.      *)
(***************************************************************************)
EXTENDS Naturals, FiniteSets, Sequences

None == {}
Some(x) == {x}
The(option) == CHOOSE x \in option : TRUE

Unparsable == [provider |-> "unparsable", name |-> "unparsable", thinking |-> None]
Error(why) == [error |-> why]
Failed(result) == "error" \in DOMAIN result

--------------------------------------------------------------------------------
(* ForkTurns: "none", "all", or the last so many turns.                    *)

Users(prefix) == {i \in DOMAIN prefix : prefix[i] = "user"}

\* The entry of the n-th user message from the end, or the first entry.
TurnsStart(prefix, n) ==
  LET nth == {i \in Users(prefix) : Cardinality({j \in Users(prefix) : j >= i}) = n}
  IN IF nth = {} THEN 1 ELSE The(nth)

ForkPrefix(prefix, fork) ==
  CASE fork.turns = "none" -> <<>>
    [] fork.turns = "all"  -> prefix
    [] OTHER -> SubSeq(prefix, TurnsStart(prefix, fork.last), Len(prefix))

--------------------------------------------------------------------------------
(* resolve_role.  roles maps a role's name to what its file says.          *)

ResolveRole(parent, roles, requested, fork) ==
  LET name == IF requested = None THEN "default" ELSE The(requested) IN
  IF fork.turns = "all" THEN [name |-> parent.role, models |-> None, tools |-> parent.tools]
  ELSE IF name \notin DOMAIN roles THEN Error("unknown agent_type")
  ELSE IF ~roles[name].valid THEN Error("invalid role")
  ELSE [name |-> name, models |-> roles[name].models, tools |-> roles[name].tools]

--------------------------------------------------------------------------------
(* profile_candidates: the requested chain, the role's or the parent's own. *)

\* A role of several profiles: its only one of the parent's provider goes first.
RoleChain(parent, chain) ==
  LET own(p) == p.provider = parent.profile.provider
      matching == {i \in DOMAIN chain : own(chain[i])}
      primary == chain[The(matching)]
      other(p) == p # primary
  IN IF Len(chain) = 1 THEN [chain |-> chain]
     ELSE IF Cardinality(matching) # 1 THEN Error("model_selection_required")
     ELSE [chain |-> <<primary>> \o SelectSeq(chain, other)]

Candidates(parent, models, requested) ==
  IF requested # None
  THEN IF The(requested) = <<>> THEN Error("empty chain")
       ELSE IF \E i \in DOMAIN The(requested) : The(requested)[i] = Unparsable
            THEN Error("invalid selector")
            ELSE [chain |-> The(requested)]
  ELSE IF models = None THEN [chain |-> <<parent.profile>>]
  ELSE RoleChain(parent, The(models))

--------------------------------------------------------------------------------
(* viable_profiles.  A world has the providers with credentials, the models *)
(* the cache lists, what a fetch of a provider would list (None if it fails) *)
(* and the thinking levels of the models of providers that support them.   *)

Listed(world, profile) ==
  LET model == [provider |-> profile.provider, name |-> profile.name]
      fetched == world.fetch[profile.provider]
  IN model \in world.cached \/ (fetched # None /\ model \in The(fetched))

Valid(world, profile) ==
  /\ profile.provider \in world.present
  /\ Listed(world, profile)
  /\ profile.thinking # None =>
       /\ profile.provider \in world.thinks
       /\ The(profile.thinking) \in world.levels[profile.name]

Viable(world, chain) ==
  LET valid(p) == Valid(world, p)
      viable == SelectSeq(chain, valid)
  IN IF viable = <<>> THEN Error("model fallback exhausted") ELSE [chain |-> viable]

--------------------------------------------------------------------------------
(* intersect_tools, where no set is no restriction, and spawn.             *)

IntersectTools(parent, role) ==
  IF parent = None THEN role
  ELSE IF role = None THEN parent
  ELSE Some(The(parent) \cap The(role))

MayCall(tools, tool) == tools = None \/ tool \in The(tools)

\* The child, or why there is none.
Prepare(parent, roles, world, args) ==
  LET role == ResolveRole(parent, roles, args.agent_type, args.fork)
      candidates == Candidates(parent, role.models, args.model)
      viable == Viable(world, candidates.chain)
  IN IF args.fork.turns = "all" /\ (args.agent_type # None \/ args.model # None)
     THEN Error("overrides require another fork_turns")
     ELSE IF Failed(role) THEN role
     ELSE IF Failed(candidates) THEN candidates
     ELSE IF Failed(viable) THEN viable
     ELSE [role |-> role.name, profiles |-> viable.chain,
           history |-> ForkPrefix(parent.history, args.fork),
           tools |-> IntersectTools(parent.tools, role.tools)]
================================================================================
