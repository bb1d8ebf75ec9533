---------------------------- MODULE MCConfigPush ----------------------------
(* A small instance of ConfigPush: two units that share one configuration,   *)
(* and a push of two calls, one of the configuration, which may fail without *)
(* stopping the push, and one of the unit's own row.                         *)
EXTENDS ConfigPush

MCConfigurationOf == [u \in Units |-> CHOOSE c \in Configurations : TRUE]

MCCalls == <<"set_service_schedule", "set_configurations">>
=============================================================================
