-------------------------- MODULE CatalogServices ---------------------------
(***************************************************************************)
(* The services over the JSON store: the catalog resources with the schema *)
(* migrations, the day pack service, what a day pack is assembled of, and   *)
(* the lifecycles of the records of single kinds.                          *)
(*                                                                         *)
(* They meet in the store alone, each in collections of its own: to the    *)
(* day pack service the catalog is edited by others (EditCatalog), and to  *)
(* the catalog a pack is only read.  A behaviour is one of them at work,   *)
(* against an arbitrary environment, the others at rest.                   *)
(***************************************************************************)
EXTENDS DayPackService, EntityCatalog, DayAssembly, RecordLifecycles

VARIABLE atWork   \* the service whose requests are served

servicesVars == <<vars, catalogVars, assemblyVars, recordVars, atWork>>

ServicesInit ==
    /\ Init /\ CatalogInit /\ AssemblyInit /\ RecordInit
    /\ atWork \in {"day packs", "catalog", "assembly", "lifecycles"}
    /\ atWork # "catalog" => shelf = CHOOSE rows \in Shelves : TRUE
    /\ atWork # "lifecycles" => entity = CHOOSE records \in Starts : TRUE

ServicesNext ==
    \/ atWork = "day packs" /\ Next /\ UNCHANGED <<catalogVars, assemblyVars, recordVars, atWork>>
    \/ atWork = "catalog" /\ CatalogNext /\ UNCHANGED <<vars, assemblyVars, recordVars, atWork>>
    \/ atWork = "assembly" /\ AssemblyNext /\ UNCHANGED <<vars, catalogVars, recordVars, atWork>>
    \/ atWork = "lifecycles" /\ RecordNext /\ UNCHANGED <<vars, catalogVars, assemblyVars, atWork>>

ServicesSpec == ServicesInit /\ [][ServicesNext]_servicesVars
=============================================================================
