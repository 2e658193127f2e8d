------------------------------ MODULE MCLayers ------------------------------
(* The layers the daemons do their input and output through.  They share no   *)
(* state here: a behaviour is a behaviour of one of them, chosen at the start, *)
(* while the others rest in one of their initial states.                       *)
EXTENDS BlockRange, VirtualFiles, Retry, Backoff, PortMapping, Rows, Results

VARIABLE layer

MCPaths == {<<"a">>, <<"d", "a">>, <<"d", "b">>, <<"d", "e", "a">>}
MCCodes == {"200", "429", "502"}
MCCodeSets == {{"429", "502"}, {"502"}}
\* the second caller meets the row the first left
MCCallers == {"a", "b"}

MCInit ==
  /\ layer \in {"blocks", "files", "retry", "backoff", "ports", "rows", "results"}
  /\ layer # "blocks" => extent = CHOOSE a \in Accesses : TRUE
  /\ layer # "files" => files = CHOOSE f \in Torrents(1) : TRUE
  /\ layer # "backoff" => strategy = CHOOSE s \in Strategies : TRUE
  /\ layer # "rows" => table = CHOOSE t \in DOMAIN Table : TRUE
  /\ Init /\ VfsInit /\ RetryInit /\ BackoffInit /\ PortsInit /\ RowsInit /\ ResultsInit
  /\ layer # "files" => /\ bl = Max(VfsBlockLengths) /\ handle = NoHandle
                        /\ disk = Stored(Total(files), bl)
  /\ IF layer = "ports" THEN at = "dial"
     ELSE at = "off" /\ bounded /\ home = CHOOSE a \in Addrs : TRUE

MCNext ==
  \/ /\ layer = "blocks" /\ Next
     /\ UNCHANGED <<layer, vfsVars, retryvars, backoffvars, portvars, rowsvars, resultVars>>
  \/ /\ layer = "files" /\ VfsNext
     /\ UNCHANGED <<layer, vars, retryvars, backoffvars, portvars, rowsvars, resultVars>>
  \/ /\ layer = "retry" /\ RetryNext
     /\ UNCHANGED <<layer, vars, vfsVars, backoffvars, portvars, rowsvars, resultVars>>
  \/ /\ layer = "backoff" /\ BackoffNext
     /\ UNCHANGED <<layer, vars, vfsVars, retryvars, portvars, rowsvars, resultVars>>
  \/ /\ layer = "ports" /\ PortsNext
     /\ UNCHANGED <<layer, vars, vfsVars, retryvars, backoffvars, rowsvars, resultVars>>
  \/ /\ layer = "rows" /\ RowsNext
     /\ UNCHANGED <<layer, vars, vfsVars, retryvars, backoffvars, portvars, resultVars>>
  \/ /\ layer = "results" /\ ResultsNext
     /\ UNCHANGED <<layer, vars, vfsVars, retryvars, backoffvars, portvars, rowsvars>>

MCSpec ==
  MCInit /\ [][MCNext]_<<layer, vars, vfsVars, retryvars, backoffvars, portvars,
                         rowsvars, resultVars>>
=============================================================================
