------------------------------ MODULE ServiceMap ------------------------------
(***************************************************************************)
(* What the registry of the service manager promises to its clients: a map *)
(* from names to services, each with its interface and a map from names to *)
(* features, and the value every call returns.  No identity, no slot.      *)
(***************************************************************************)
CONSTANTS Names,    \* service names
          Features, \* feature names
          Apis,     \* interfaces
          NULL

DEFAULT == "default"  \* the name of a service's own interface

VARIABLES map,   \* map[s]: the service registered as s
          reply  \* what the last call returned

vars == <<map, reply>>

Init == map = << >> /\ reply = NULL

\* f with y at x, and f without x.
With(f, x, y) == [z \in DOMAIN f \cup {x} |-> IF z = x THEN y ELSE f[z]]
Without(f, x) == [z \in DOMAIN f \ {x} |-> f[z]]

Refuse(result) == reply' = result /\ UNCHANGED map

\* A registration may be refused for lack of room.
RegisterService(s) ==
  \/ /\ reply' = TRUE /\ s \notin DOMAIN map
     /\ map' = With(map, s, [inited |-> FALSE, api |-> NULL, features |-> << >>])
  \/ Refuse(FALSE)

UnregisterService(s) ==
  IF s \in DOMAIN map /\ map[s].api = NULL /\ map[s].features = << >>
  THEN reply' = s /\ map' = Without(map, s)
  ELSE Refuse(NULL)

Initialised(s) == /\ s \in DOMAIN map /\ map' = [map EXCEPT ![s].inited = TRUE]
                  /\ UNCHANGED reply

\* A service takes features until it is initialised.
RegisterFeature(s, f) ==
  \/ /\ reply' = TRUE
     /\ s \in DOMAIN map /\ ~ map[s].inited /\ f \notin DOMAIN map[s].features
     /\ map' = [map EXCEPT ![s].features = With(@, f, NULL)]
  \/ Refuse(FALSE)

UnregisterFeature(s, f) ==
  IF s \in DOMAIN map /\ f \in DOMAIN map[s].features /\ map[s].features[f] = NULL
  THEN /\ reply' = f
       /\ map' = [map EXCEPT ![s].features = Without(@, f)]
  ELSE Refuse(NULL)

\* The interface of a service (f = DEFAULT) or of one of its features.
Has(s, f) == s \in DOMAIN map /\ f \in {DEFAULT} \cup DOMAIN map[s].features
Api(s, f) == IF f = DEFAULT THEN map[s].api ELSE map[s].features[f]
SetApi(s, f, a) == map' = IF f = DEFAULT THEN [map EXCEPT ![s].api = a]
                          ELSE [map EXCEPT ![s].features = With(@, f, a)]

RegisterFeatureApi(s, f, a) ==
  IF Has(s, f) /\ Api(s, f) = NULL THEN reply' = TRUE /\ SetApi(s, f, a)
  ELSE Refuse(FALSE)

UnregisterFeatureApi(s, f) ==
  IF Has(s, f) THEN reply' = Api(s, f) /\ SetApi(s, f, NULL) ELSE Refuse(NULL)

GetFeatureApi(s, f) == Refuse(IF Has(s, f) THEN Api(s, f) ELSE NULL)

Next == \E s \in Names :
          \/ RegisterService(s) \/ UnregisterService(s) \/ Initialised(s)
          \/ \E f \in Features : RegisterFeature(s, f) \/ UnregisterFeature(s, f)
          \/ \E f \in Features \cup {DEFAULT} :
               \/ \E a \in Apis : RegisterFeatureApi(s, f, a)
               \/ UnregisterFeatureApi(s, f) \/ GetFeatureApi(s, f)

Spec == Init /\ [][Next]_vars
=============================================================================
