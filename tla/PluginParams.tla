---------------------------- MODULE PluginParams ----------------------------
(***************************************************************************)
(* The parameter changes of ClientParams with what CorePlugin computes for *)
(* them: the tables a queued change is looked up in, the host's events and *)
(* the walk over a block.                                                  *)
(***************************************************************************)
EXTENDS ClientParams, CorePlugin

\* The tables of a plugin that added each of its parameters once, in any order.
Orders == {ids \in BoundedSeq(Params, MaxAdded) : \A id \in Params : Once(ids, id)}
Tables == {Registry(ids) : ids \in Orders}

\* The parameter that lives under this id.
Lives(table, p, id) == p \in ToSet(table.params) /\ table.ids[p] = id

\* A queued change finds its parameter if there is one, and no other: what the
\* table answers for this plugin is what it answers for every order of adding
\* parameters, ids that are added again included.
TablesExact ==
  /\ \A p \in Plugins : \A i \in DOMAIN queue[p] : \A table \in Tables :
       LET id == queue[p][i].param
           found == GetParameterById(table, id)
       IN  IF id \in Params THEN Lives(table, found, id) ELSE found = Null
  /\ LookupExact

\* The events the host sends in a block set the parameter they name, here and
\* for every table, cookie and kind of event.
EventsExact ==
  \A p \in Plugins : audio[p].at \in HostEvents =>
    /\ \A id \in Automated, table \in Tables :
         LET ev == [core |-> TRUE, type |-> "value", cookie |-> Null, id |-> id]
             out == ProcessEvent(table, ev)
         IN  out.does = "value" /\ Lives(table, out.param, id)
    /\ EventFindsParameter

\* In a block that takes the host's events, whatever was drained before them,
\* every event is handled at its frame as far as the host sorted them.
BlocksExact ==
  \A p \in Plugins : audio[p].at \in HostEvents => FramesExact
=============================================================================
