--------------------------- MODULE CatalogChecks ---------------------------
(***************************************************************************)
(* The checks of services_catalog that the hook runs before every commit   *)
(* (cmd/validate-services/main.go).                                        *)
(*                                                                         *)
(* A catalog is a sequence of [name, enabled, managed, skipDeploy, host,   *)
(* port, domains]; None is a field that is absent.  The staging ports and  *)
(* the warnings are left out.                                              *)
(***************************************************************************)
EXTENDS NoValue, Integers, Sequences, FiniteSets, SequencesExt

CONSTANTS
  ValidHosts,
  Composed        \* services with a docker-compose.yml, for production or dev

\* The entries after the checks that skip an entry: a name, and enabled.
Checked(catalog) == SelectSeq(catalog, LAMBDA s : s.name # None /\ s.enabled)

Duplicates(catalog) ==
  {<<"duplicate", n>> :
     n \in {x \in {s.name : s \in ToSet(catalog)} \ {None} :
              Cardinality({i \in DOMAIN catalog : catalog[i].name = x}) > 1}}

\* What is wrong with one service by itself.
ServiceErrors(s) ==
  (IF s.host = None THEN {<<"no host", s.name>>}
   ELSE IF s.host \notin ValidHosts THEN {<<"unknown host", s.name>>} ELSE {})
  \cup (IF s.port = None /\ s.managed THEN {<<"no port", s.name>>} ELSE {})
  \cup (IF s.managed /\ ~s.skipDeploy /\ s.name \notin Composed
        THEN {<<"no compose file", s.name>>} ELSE {})

\* Two entries with the same port on one host; port 0 is no port.
PortConflicts(services) ==
  {<<"port", services[i].host, services[i].port>> :
     i \in {x \in DOMAIN services :
              /\ services[x].host # None /\ services[x].port \notin {None, 0}
              /\ \E y \in DOMAIN services \ {x} :
                   /\ services[y].host = services[x].host
                   /\ services[y].port = services[x].port}}

\* domains is a sequence: an entry that lists a domain twice is in conflict
\* with itself.
DomainConflicts(services) ==
  LET owned == FlattenSeq([i \in DOMAIN services |-> services[i].domains])
  IN {<<"domain", d>> :
        d \in {x \in ToSet(owned) : Cardinality({i \in DOMAIN owned : owned[i] = x}) > 1}}

\* validateServices
Errors(catalog) ==
  LET services == Checked(catalog)
  IN {<<"no name", i>> : i \in {x \in DOMAIN catalog : catalog[x].name = None}}
     \cup Duplicates(catalog)
     \cup (UNION {ServiceErrors(s) : s \in ToSet(services)})
     \cup PortConflicts(services) \cup DomainConflicts(services)
=============================================================================
