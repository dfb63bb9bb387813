------------------------------- MODULE Registry -------------------------------
(***************************************************************************)
(* The services and features of the service manager: RegisterService,      *)
(* UnregisterService, RegisterFeature, UnregisterFeature, the functions on *)
(* interfaces and GetFeatureId of samgr_lite.c, with the functions of      *)
(* service.c and feature.c they call, on the vectors of common.c; and the  *)
(* dispatch of a message by the ids it carries, DEFAULT_MessageHandle.     *)
(*                                                                         *)
(* A call is one step: the calls on services run under the samgr mutex,    *)
(* and the calls on the features of one service are assumed not to overlap *)
(* with each other or with its unregistration, as the code needs (it takes *)
(* no mutex for them).                                                     *)
(***************************************************************************)
EXTENDS Vector

CONSTANTS
  Names, Features, Apis, \* names of services, of features; interfaces
  MaxServices,           \* MAX_SERVICE_NUM
  MaxFeatures            \* MAX_FEATURE_NUM

DEFAULT == "default"

ASSUME RegistryAssumption ==
  /\ MaxServices \in Nat \ {0} /\ MaxFeatures \in Nat \ {0}
  /\ NULL \notin Names \cup Features \cup Apis
  /\ DEFAULT \notin Features  \* it stands for no feature

\* A feature and a service as the registry keeps them: FeatureImpl and
\* ServiceImpl, without what no call here reads.
FeatureImpl == [name : Features, iUnknown : Apis \cup {NULL}]
ServiceImpl == [name : Names, serviceId : Int, inited : {"SVC_INIT", "SVC_IDLE"},
                defaultApi : Apis \cup {NULL}, features : Vectors(FeatureImpl)]

ASSUME RecordsAssumption == NULL \notin FeatureImpl \cup ServiceImpl

VARIABLES services, \* samgr->services, a vector of ServiceImpls
          reply     \* what the last call returned

vars == <<services, reply>>

Init == services = VECTOR_Make /\ reply = NULL

\* VECTOR_FindByKey with GetServiceName or GetFeatureName.
FindByKey(v, key) == VECTOR_First({i \in Held(v) : VECTOR_At(v, i).name = key})

\* GetService and DEFAULT_GetFeature.
GetService(s) == VECTOR_At(services, FindByKey(services, s))
DEFAULT_GetFeature(serviceImpl, f) ==
  VECTOR_At(serviceImpl.features, FindByKey(serviceImpl.features, f))

Set(s, serviceImpl) ==
  services' = [services EXCEPT !.data[FindByKey(services, s) + 1] = serviceImpl]
SetFeature(s, f, featureImpl) ==
  LET m == GetService(s)
  IN Set(s, [m EXCEPT !.features.data[FindByKey(m.features, f) + 1] = featureImpl])

Return(result) == reply' = result
Refuse(result) == reply' = result /\ UNCHANGED services

-----------------------------------------------------------------------------
\* Mutant: the id is the number of slots, also when a slot is used again.
CreateServiceImplTop(s) ==
  [name |-> s, serviceId |-> VECTOR_Size(services), inited |-> "SVC_INIT",
   defaultApi |-> NULL, features |-> VECTOR_Make]

\* SAMGR_CreateServiceImpl, and the id RegisterService gives the object.
CreateServiceImpl(s) ==
  [name |-> s, serviceId |-> AddIndex(services), inited |-> "SVC_INIT",
   defaultApi |-> NULL, features |-> VECTOR_Make]

\* The object, or the memory of a vector that must grow, may not be there.
RegisterService(s) ==
  IF FindByKey(services, s) # INVALID_INDEX \/ VECTOR_Num(services) >= MaxServices
  THEN Refuse(FALSE)
  ELSE \/ services' = VECTOR_Add(services, CreateServiceImpl(s)) /\ Return(TRUE)
       \/ Refuse(FALSE)

\* Mutant: the features are not looked at.
UnregisterServiceAnyway(s) ==
  IF GetService(s) = NULL \/ (GetService(s) # NULL /\ GetService(s).defaultApi # NULL)
  THEN Refuse(NULL)
  ELSE services' = VECTOR_Release(services, FindByKey(services, s)) /\ Return(s)

UnregisterService(s) ==
  LET m == GetService(s)
  IN IF m # NULL /\ m.defaultApi = NULL /\ VECTOR_Num(m.features) <= 0
     THEN services' = VECTOR_Release(services, FindByKey(services, s)) /\ Return(s)
     ELSE Refuse(NULL)

\* HandleInitRequest is done with the service.
Initialised(s) ==
  /\ GetService(s) # NULL
  /\ Set(s, [GetService(s) EXCEPT !.inited = "SVC_IDLE"])
  /\ UNCHANGED reply

\* RegisterFeature, with DEFAULT_AddFeature.
RegisterFeature(s, f) ==
  LET m == GetService(s)
  IN IF m # NULL /\ m.inited = "SVC_INIT" /\ DEFAULT_GetFeature(m, f) = NULL
        /\ VECTOR_Num(m.features) < MaxFeatures
     THEN \/ /\ Set(s, [m EXCEPT !.features = VECTOR_Add(@, [name |-> f, iUnknown |-> NULL])])
             /\ Return(TRUE)
          \/ Refuse(FALSE)
     ELSE Refuse(FALSE)

\* UnregisterFeature: DEFAULT_DeleteFeature refuses a feature that still has
\* an interface.
UnregisterFeature(s, f) ==
  LET m == GetService(s)
  IN IF m # NULL /\ DEFAULT_GetFeature(m, f) # NULL /\ DEFAULT_GetFeature(m, f).iUnknown = NULL
     THEN /\ Set(s, [m EXCEPT !.features = VECTOR_Release(@, FindByKey(m.features, f))])
          /\ Return(f)
     ELSE Refuse(NULL)

\* RegisterFeatureApi without a feature, RegisterDefaultFeatureApi.
RegisterDefaultFeatureApi(s, a) ==
  IF GetService(s) # NULL /\ GetService(s).defaultApi = NULL
  THEN Set(s, [GetService(s) EXCEPT !.defaultApi = a]) /\ Return(TRUE)
  ELSE Refuse(FALSE)

\* RegisterFeatureApi, with SAMGR_AddInterface.
RegisterFeatureApi(s, f, a) ==
  LET m == GetService(s)
  IN IF m # NULL /\ DEFAULT_GetFeature(m, f) # NULL /\ DEFAULT_GetFeature(m, f).iUnknown = NULL
     THEN SetFeature(s, f, [DEFAULT_GetFeature(m, f) EXCEPT !.iUnknown = a]) /\ Return(TRUE)
     ELSE Refuse(FALSE)

UnregisterDefaultFeatureApi(s) ==
  LET m == GetService(s)
  IN IF m # NULL THEN Set(s, [m EXCEPT !.defaultApi = NULL]) /\ Return(m.defaultApi)
     ELSE Refuse(NULL)

\* UnregisterFeatureApi, with SAMGR_DelInterface.
UnregisterFeatureApi(s, f) ==
  LET m == GetService(s)
  IN IF m # NULL /\ DEFAULT_GetFeature(m, f) # NULL
     THEN /\ SetFeature(s, f, [DEFAULT_GetFeature(m, f) EXCEPT !.iUnknown = NULL])
          /\ Return(DEFAULT_GetFeature(m, f).iUnknown)
     ELSE Refuse(NULL)

\* GetFeatureApi of a local service.
GetFeatureApi(s, f) ==
  LET m == GetService(s)
  IN Refuse(IF m = NULL THEN NULL
            ELSE IF f = DEFAULT THEN m.defaultApi
            ELSE IF DEFAULT_GetFeature(m, f) = NULL THEN NULL
            ELSE DEFAULT_GetFeature(m, f).iUnknown)

\* GetFeatureId, and GetServiceId with f = DEFAULT.
GetFeatureId(s, f) ==
  [serviceId |-> GetService(s).serviceId,
   featureId |-> IF f = DEFAULT THEN INVALID_INDEX ELSE FindByKey(GetService(s).features, f)]

\* The service and feature whose handler a message to id runs:
\* CorrectServiceImpl looks the service up, DEFAULT_MessageHandle the feature.
DEFAULT_MessageHandle(id) ==
  LET m == VECTOR_At(services, id.serviceId)
  IN IF m = NULL THEN NULL
     ELSE IF m.serviceId # id.serviceId THEN NULL
     ELSE IF id.featureId < 0 THEN <<m.name, DEFAULT>>
     ELSE IF VECTOR_At(m.features, id.featureId) = NULL THEN NULL
     ELSE <<m.name, VECTOR_At(m.features, id.featureId).name>>

Next == \E s \in Names :
          \/ RegisterService(s) \/ UnregisterService(s) \/ Initialised(s)
          \/ \E f \in Features :
               \/ RegisterFeature(s, f) \/ UnregisterFeature(s, f)
               \/ \E a \in Apis : RegisterFeatureApi(s, f, a)
               \/ UnregisterFeatureApi(s, f)
          \/ \E a \in Apis : RegisterDefaultFeatureApi(s, a)
          \/ UnregisterDefaultFeatureApi(s)
          \/ \E f \in Features \cup {DEFAULT} : GetFeatureApi(s, f)

Spec == Init /\ [][Next]_vars

-----------------------------------------------------------------------------
(* Properties *)

Counted(v, limit) == /\ v.free = Cardinality(Released(v))
                     /\ Len(v.data) <= v.max
                     /\ v.max < limit + GrowStep

\* VECTOR_Num, which the limits and UnregisterService rely on, is the number
\* of elements: free counts exactly the released slots however adding and
\* releasing alternate; nothing is written past max; and slots are used
\* again, so that a vector never grows past the limit and top and max, int16,
\* do not overflow.
SlotsCounted ==
  /\ Counted(services, MaxServices)
  /\ \A i \in Held(services) : Counted(VECTOR_At(services, i).features, MaxFeatures)

\* The features registered as parts of service s.
FeaturesOf(m) == {VECTOR_At(m.features, j).name : j \in Held(m.features)}

\* The Identity that GetServiceId and GetFeatureId return routes a message to
\* just that service or feature, whatever was registered and unregistered
\* before, and names are unique.
RouteCorrect ==
  \A i, j \in Held(services) :
    LET m == VECTOR_At(services, i)
    IN /\ VECTOR_At(services, j).name = m.name => i = j
       /\ \A f \in FeaturesOf(m) \cup {DEFAULT} :
            DEFAULT_MessageHandle(GetFeatureId(m.name, f)) = <<m.name, f>>

\* v and w, the same vector before and after a step, hold what has the same
\* name in the same slot.
SameSlots(v, w) ==
  \A i \in Held(v), j \in Held(w) : v.data[i + 1].name = w.data[j + 1].name => i = j

\* An Identity stays valid as long as what it names is registered: services
\* and features keep their ids, though other slots are released, taken again
\* and vectors grow.  Clients keep an Identity for as long as they like.
IdsStable ==
  [][/\ SameSlots(services, services')
     /\ \A i \in Held(services) \cap Held(services') :
          services.data[i + 1].name = services'.data[i + 1].name =>
            SameSlots(services.data[i + 1].features, services'.data[i + 1].features)]_vars

\* The registry behaves as a map from names.
serviceMap ==
  [s \in {VECTOR_At(services, i).name : i \in Held(services)} |->
     LET m == GetService(s)
     IN [inited |-> m.inited = "SVC_IDLE", api |-> m.defaultApi,
         features |-> [f \in FeaturesOf(m) |-> DEFAULT_GetFeature(m, f).iUnknown]]]

Map == INSTANCE ServiceMap WITH map <- serviceMap

\* Every call changes the map and returns what ServiceMap says.
ImplementsServiceMap == Map!Spec
=============================================================================
