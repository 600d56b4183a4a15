------------------------------ MODULE Registry ------------------------------
(***************************************************************************)
(* The validation of what is registered: it returns the modules layer by   *)
(* layer, each layer those whose dependencies are all in the layers before *)
(* it, sorted by identity.  It raises when a dependency was not registered *)
(* or when a layer would be empty.                                         *)
(***************************************************************************)
EXTENDS Integers, FiniteSets, SequencesExt

CONSTANTS Modules,       \* the identities that can be registered
          Unregistered   \* identities that are named but never registered

ASSUME RegistryAssumption ==
    Modules \subseteq Int /\ IsFiniteSet(Modules) /\ Unregistered \subseteq Int \ Modules

\* What is registered: the dependencies of each module.
Registrations ==
    UNION {[registered -> SUBSET (Modules \union Unregistered)] : registered \in SUBSET Modules}

\* The modules that depend on one that was not registered.
Missing(dependencies) ==
    {m \in DOMAIN dependencies : ~(dependencies[m] \subseteq DOMAIN dependencies)}

\* The modules that wait for nothing but what is resolved.
Ready(dependencies, resolved) ==
    {m \in DOMAIN dependencies \ resolved : dependencies[m] \subseteq resolved}

\* What is resolved after n passes of the loop.
Resolved(dependencies, n) ==
    LET After[k \in 0..n] ==
            IF k = 0 THEN {} ELSE After[k - 1] \union Ready(dependencies, After[k - 1])
    IN  After[n]

\* The modules of a layer by their identities.
Sorted(modules) ==
    CHOOSE list \in [1..Cardinality(modules) -> modules] :
        \A i, j \in DOMAIN list : i < j => list[i] < list[j]

\* Fault: the loop stops at an empty layer and raises only if it was the first.
CyclicAtFirst(dependencies) ==
    Ready(dependencies, {}) = {} /\ DOMAIN dependencies # {}

\* The loop ends with modules left over.
Cyclic(dependencies) == Resolved(dependencies, Cardinality(Modules)) # DOMAIN dependencies

\* validate_dependencies: an error, or the order.
ValidateDependencies(dependencies) ==
    LET Layers == [n \in 1..Cardinality(Modules) |->
                      Sorted(Ready(dependencies, Resolved(dependencies, n - 1)))]
    IN  IF Missing(dependencies) # {} THEN [error |-> "missing", order |-> <<>>]
        ELSE IF Cyclic(dependencies) THEN [error |-> "cyclic", order |-> <<>>]
        ELSE [error |-> "none", order |-> FlattenSeq(Layers)]
-----------------------------------------------------------------------------
(* Property                                                                *)

\* An order is a list of all the registered modules, each once and after
\* everything it depends on.
IsOrder(dependencies, order) ==
    /\ {order[i] : i \in DOMAIN order} = DOMAIN dependencies
    /\ Len(order) = Cardinality(DOMAIN dependencies)
    /\ \A i \in DOMAIN order : \A d \in dependencies[order[i]] :
        \E j \in 1..(i - 1) : order[j] = d

\* Whatever was registered, and in whatever order it was: if there is an order
\* in which every module follows what it depends on, validate_dependencies
\* returns one, and otherwise it raises, also for a module that depends on itself.
OrderIsDependencyFirst ==
    \A dependencies \in Registrations :
        LET result == ValidateDependencies(dependencies) IN
        IF \E order \in SetToSeqs(DOMAIN dependencies) : IsOrder(dependencies, order)
        THEN result.error = "none" /\ IsOrder(dependencies, result.order)
        ELSE result.error # "none"
=============================================================================
