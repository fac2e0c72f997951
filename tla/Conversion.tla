------------------------------ MODULE Conversion ------------------------------
(***************************************************************************)
(* How the Podman runtime turns ports into port mappings, volumes into     *)
(* Kubernetes types, and a container's state into a unit's                 *)
(* (pkg/convert/convert.go). What may be missing is a set with at most one *)
(* element.                                                                *)
(***************************************************************************)
EXTENDS Naturals, Sequences, SequencesExt

CONSTANT PortSpan   \* 2^16 in the code: ports are cut to 16 bits

ASSUME PortSpanAssumption == PortSpan \in Nat \ {0}

PortMapping(port) ==
    [container |-> port.container % PortSpan,
     host |-> (IF port.host # 0 THEN port.host ELSE port.container) % PortSpan]

\* A missing container port is an error.
UnitPortsToPodmanPortMapping(ports) ==
    IF \E i \in DOMAIN ports : ports[i].container = 0 THEN {}
    ELSE {[i \in DOMAIN ports |-> PortMapping(ports[i])]}

\* Volumes name their source in one of several fields; the first one of these
\* orders is taken.
VolumeOrder == <<"secret", "hostPath", "configMap", "emptyDir", "projected", "packagePath">>
SourceOrder == <<"secret", "configMap">>

FirstOf(order, fields) ==
    LET i == SelectInSeq(order, LAMBDA f : f \in fields) IN
    IF i = 0 THEN {} ELSE {order[i]}

\* A package is a host path below the directory of the packages, of the type
\* found there, and a host path without anything if nothing is.
ConvertPackagePathToHostPath(volume, packages) ==
    IF volume.name \in DOMAIN packages
    THEN [kind |-> "hostPath", path |-> {volume.name}, type |-> packages[volume.name]]
    ELSE [kind |-> "hostPath", path |-> {}, type |-> "unset"]

ConvertedVolume(kind, volume, packages) ==
    CASE kind = "packagePath" -> ConvertPackagePathToHostPath(volume, packages)
      [] kind = "hostPath" -> [kind |-> kind, path |-> {volume.path}, type |-> volume.type]
      [] kind = "projected" ->
            [kind |-> kind, sources |-> [i \in DOMAIN volume.sources |->
                                            FirstOf(SourceOrder, volume.sources[i])]]
      [] OTHER -> [kind |-> kind]

MilpaToK8sVolume(volume, packages) ==
    {ConvertedVolume(kind, volume, packages) : kind \in FirstOf(VolumeOrder, volume.fields)}

\* Only a dead container is one that ended.
ContainerStateToUnit(state) ==
    CASE state = "running" -> "running"
      [] state = "dead" -> "terminated"
      [] OTHER -> "waiting"

===============================================================================
