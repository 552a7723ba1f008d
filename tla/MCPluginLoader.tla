--------------------------- MODULE MCPluginLoader ---------------------------
(* Small instance of PluginLoader for TLC: a tool and an agent that share  *)
(* a directory, a tool inside that directory, a model of the same name,    *)
(* and two manifests that do not validate.                                 *)
EXTENDS PluginLoader, TLC

CONSTANTS o1, o2, o3

Name(parts) == [absolute |-> FALSE, up |-> 0, parts |-> parts]

Package(name, type, content, wrong) ==
  [name |-> name, plugin_type |-> type, files |-> content, wrong |-> wrong]

x == Name(<<"x">>)

MCPackages == {Package(x, "tool", {"a.py"}, {}),
               Package(x, "agent", {}, {}),
               Package(x, "model", {}, {}),
               Package(x, "tool", {}, {"author"}),
               Package(x, "model", {}, {"null"}),
               Package(Name(<<"x", "y">>), "tool", {}, {})}

Symmetry == Permutations(Ops)
=============================================================================
