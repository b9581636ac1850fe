--------------------------- MODULE SensorHandles ----------------------------
(***************************************************************************)
(* The two handle spaces of the multi-HAL (multihal.cpp).  A sub-HAL knows *)
(* its sensors by local handles; the framework knows them by global ones,  *)
(* assigned in the order in which lazy_init_sensors_list walks the modules *)
(* and their lists.  sub_hw_devices holds the devices open_sensors could   *)
(* open, in module order.                                                  *)
(***************************************************************************)
EXTENDS Integers, Sequences

CONSTANTS ModuleCount,  \* Len(sub_hw_modules)
          SensorList    \* the FullHandle of every sensor, in global order;
                        \* a sub-HAL's handles are unique

ASSUME HandleAssumption ==
  /\ ModuleCount \in Nat
  /\ SensorList \in Seq([moduleIndex : 1 .. ModuleCount, localHandle : Nat])
  /\ \A g, h \in DOMAIN SensorList : SensorList[g] = SensorList[h] => g = h

FullHandle(module, handle) == [moduleIndex |-> module, localHandle |-> handle]

(* global_to_full and full_to_global after the assign_global_handle calls. *)
global_to_full == SensorList

get_local_handle(g) ==
  IF g \in DOMAIN global_to_full THEN global_to_full[g].localHandle ELSE -1

get_module_index(g) ==
  IF g \in DOMAIN global_to_full THEN global_to_full[g].moduleIndex ELSE -1

get_global_handle(full) ==
  IF \E g \in DOMAIN SensorList : SensorList[g] = full
  THEN CHOOSE g \in DOMAIN SensorList : SensorList[g] = full
  ELSE -1

(* copy_event_remap_handle: the handle of a data event is its sensor       *)
(* field, that of a META_DATA event the sensor of the nested event.        *)
copy_event_remap_handle(event, sub_index) ==
  [event EXCEPT !.handle = get_global_handle(FullHandle(sub_index, @))]

(* poll() looks at the sensor field, which is 0 in a META_DATA event.      *)
badHandle(event) == event.type # "META_DATA" /\ event.handle = -1
=============================================================================
