------------------------------ MODULE Plugins ------------------------------
(***************************************************************************)
(* The plugin registry: a list of plugins with their dependencies, which   *)
(* is validated when the engine starts and from which the plugins of a     *)
(* tenant are resolved, dependencies first.  Both are loops over the       *)
(* registry that call a function that calls itself on the dependencies; a  *)
(* step is one iteration of a loop.  Nothing else runs until a search has  *)
(* ended, and the registry is any list a developer may write.              *)
(***************************************************************************)
EXTENDS Naturals, SequencesExt

CONSTANTS
  Ids,             \* ids of plugins, defined or not
  Registry,        \* pluginRegistry: the ids of the plugins it defines
  MaxDependencies  \* bound: dependencies of a plugin

ASSUME PluginsAssumption == Registry \in Seq(Ids) /\ MaxDependencies \in Nat

Known == ToSet(Registry)

VARIABLES
  dependencies,  \* of every plugin of the registry, in the order it lists them
  engine,        \* "validating", then "up" or "refused"; "resolving" a request
  next,          \* where the loop over the registry goes on
  calls,         \* calls in progress: the plugin, and where its loop goes on
  finished,      \* visited or resolved: the plugins whose call has ended, in order
  enabled,       \* enabledPlugins of the tenant that asked last
  listing        \* listForTenant: what it was answered

vars == <<dependencies, engine, next, calls, finished, enabled, listing>>

Init ==
  /\ dependencies \in [Known -> BoundedSeq(Ids, MaxDependencies)]
  /\ engine = "validating"
  /\ next = 1 /\ calls = << >> /\ finished = << >>
  /\ enabled = {} /\ listing = << >>

Visited == ToSet(finished)
Visiting == {calls[i].plugin : i \in DOMAIN calls}
Call(plugin) == [plugin |-> plugin, next |-> 1]

\* The loop over the registry is at a plugin, or done; or that of the last call
\* is at a dependency, and then goes on as the last of Advanced.
AtPlugin == calls = << >> /\ next <= Len(Registry)
AtEnd == calls = << >> /\ next > Len(Registry)
AtDependency ==
  calls # << >> /\ Last(calls).next <= Len(dependencies[Last(calls).plugin])
NextDependency == dependencies[Last(calls).plugin][Last(calls).next]
Advanced == [calls EXCEPT ![Len(calls)].next = @ + 1]

\* dependencies come last
FaultyFinish ==
  /\ calls # << >> /\ ~AtDependency
  /\ calls' = Front(calls)
  /\ finished' = <<Last(calls).plugin>> \o finished
  /\ UNCHANGED <<dependencies, engine, next, enabled, listing>>
\* The loop of a call is over; a plugin that is there already stays where it is.
Finish ==
  /\ calls # << >> /\ ~AtDependency
  /\ calls' = Front(calls)
  /\ finished' = IF Last(calls).plugin \in Visited THEN finished
                 ELSE Append(finished, Last(calls).plugin)
  /\ UNCHANGED <<dependencies, engine, next, enabled, listing>>

-----------------------------------------------------------------------------
(* Validation, in the constructor of the service *)

\* a plugin counts as visited when its search begins
FaultyValidatePlugin(plugin, rest) ==
  \/ /\ plugin \in Visited \cup Visiting
     /\ calls' = rest /\ UNCHANGED engine
  \/ /\ plugin \in Known \ (Visited \cup Visiting)
     /\ calls' = Append(rest, Call(plugin)) /\ UNCHANGED engine
  \/ /\ plugin \notin Known
     /\ calls' = << >> /\ engine' = "refused"
\* validatePlugin up to its loop, called by the loops in rest; or a throw, of
\* the callee or of the loop that calls it.
ValidatePlugin(plugin, rest) ==
  \/ /\ plugin \in Visited
     /\ calls' = rest /\ UNCHANGED engine
  \/ /\ plugin \in Known \ (Visited \cup Visiting)
     /\ calls' = Append(rest, Call(plugin)) /\ UNCHANGED engine
  \/ /\ plugin \in Visiting \ Visited \/ plugin \notin Known
     /\ calls' = << >> /\ engine' = "refused"

ValidateRegistry ==
  /\ engine = "validating" /\ AtPlugin
  /\ next' = next + 1
  /\ ValidatePlugin(Registry[next], << >>)
  /\ UNCHANGED <<dependencies, finished, enabled, listing>>

ValidateDependency ==
  /\ engine = "validating" /\ AtDependency
  /\ ValidatePlugin(NextDependency, Advanced)
  /\ UNCHANGED <<dependencies, next, finished, enabled, listing>>

StartEngine ==
  /\ engine = "validating" /\ AtEnd
  /\ engine' = "up"
  /\ UNCHANGED <<dependencies, next, calls, finished, enabled, listing>>

-----------------------------------------------------------------------------
(* Resolution, for a tenant *)

ListForTenant(wanted) ==
  /\ engine = "up"
  /\ engine' = "resolving"
  /\ enabled' = wanted
  /\ next' = 1 /\ finished' = << >>
  /\ UNCHANGED <<dependencies, calls, listing>>

\* addPluginWithDependencies up to its loop, called by the loops in rest.
AddPluginWithDependencies(plugin, rest) ==
  calls' = IF plugin \in Known \ Visited THEN Append(rest, Call(plugin)) ELSE rest

ResolvePlugins ==
  /\ engine = "resolving" /\ AtPlugin
  /\ next' = next + 1
  /\ IF Registry[next] \in enabled
     THEN AddPluginWithDependencies(Registry[next], << >>)
     ELSE UNCHANGED calls
  /\ UNCHANGED <<dependencies, engine, finished, enabled, listing>>

ResolveDependency ==
  /\ engine = "resolving" /\ AtDependency
  /\ AddPluginWithDependencies(NextDependency, Advanced)
  /\ UNCHANGED <<dependencies, engine, next, finished, enabled, listing>>

Answer ==
  /\ engine = "resolving" /\ AtEnd
  /\ engine' = "up"
  /\ listing' = finished
  /\ UNCHANGED <<dependencies, next, calls, finished, enabled>>

Next ==
  \/ ValidateRegistry \/ ValidateDependency \/ StartEngine
  \/ \E wanted \in SUBSET Ids : ListForTenant(wanted)
  \/ ResolvePlugins \/ ResolveDependency \/ Answer
  \/ Finish

Spec == Init /\ [][Next]_vars

-----------------------------------------------------------------------------
(* Properties *)

DependsOn(plugin) == ToSet(dependencies[plugin])

\* The engine refuses to start with a registry exactly when a dependency is
\* missing from it or some plugins depend on each other in a circle: when not
\* every set of plugins has one that depends on none of them.
Defined == \A plugin \in Known : DependsOn(plugin) \subseteq Known
NoCircle ==
  \A plugins \in (SUBSET Known) \ {{}} :
    \E plugin \in plugins : DependsOn(plugin) \cap plugins = {}
RefusedExactly ==
  engine # "validating" => (engine # "refused" <=> Defined /\ NoCircle)

\* A tenant gets the plugins it enabled and all they need, no others, each one
\* once and after all it depends on; ids the registry does not know are left
\* out.  And no search is in a plugin twice, where it would never come out,
\* although only validation looks for circles.
Closed(plugins) == \A plugin \in plugins : DependsOn(plugin) \subseteq plugins
Sufficient == {plugins \in SUBSET Known : enabled \cap Known \subseteq plugins /\ Closed(plugins)}
ListingExact ==
  /\ \A i, j \in DOMAIN calls : calls[i].plugin = calls[j].plugin => i = j
  /\ engine = "up" =>
       /\ ToSet(listing) \in Sufficient
       /\ \A plugins \in Sufficient : ToSet(listing) \subseteq plugins
       /\ \A i \in DOMAIN listing :
            DependsOn(listing[i]) \subseteq {listing[j] : j \in 1 .. i - 1} \ {listing[i]}
       /\ IsInjective(listing)
=============================================================================
