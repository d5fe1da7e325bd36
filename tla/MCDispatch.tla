----------------------------- MODULE MCDispatch -----------------------------
(* A root class, a subclass of it, and their metaclasses.  The metaclass of  *)
(* the root has the root for its superclass.                                 *)
EXTENDS Dispatch

MCNodes == {"Root", "Sub", "RootMeta", "SubMeta"}
MCSuper == [n \in MCNodes |->
    CASE n = "Root" -> "Nil"
      [] n = "SubMeta" -> "RootMeta"
      [] OTHER -> "Root"]
MCClassOf == [n \in MCNodes |->
    CASE n = "RootMeta" -> "Root"
      [] n = "SubMeta" -> "Sub"
      [] OTHER -> n]

(* The subclass itself gets no messages, so its metaclass has no table.       *)
TwoNodes == MCNodes \ {"SubMeta"}
TwoSuper == [n \in TwoNodes |-> MCSuper[n]]
TwoClassOf == [n \in TwoNodes |-> MCClassOf[n]]
=============================================================================
