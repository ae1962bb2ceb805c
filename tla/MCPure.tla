------------------------------- MODULE MCPure -------------------------------
(***************************************************************************)
(* Instances of Dependencies and Payload for TLC: every list of three      *)
(* tables with at most two dependencies each, one of them unknown or a     *)
(* name listed twice in some, and the tables of config/tables.yaml.  The   *)
(* rows of Payload are explored beside the empty list.                     *)
(***************************************************************************)
EXTENDS Dependencies, Payload

Table(name, dependencies, order) ==
  [name |-> name, dependencies |-> dependencies, order |-> order, batch_size |-> 500]

Shipped ==
  << Table("saDocumentoVenta", <<>>, 1),
     Table("saFacturaVenta", <<"saDocumentoVenta">>, 2),
     Table("saFacturaVentaReng", <<"saFacturaVenta">>, 3),
     Table("saCaja", <<>>, 4),
     Table("saCobro", <<>>, 5),
     Table("saMovimientoBanco", <<>>, 6),
     Table("saMovimientoCaja", <<"saCaja">>, 7),
     Table("saCobroDocReng", <<"saCobro", "saDocumentoVenta">>, 8),
     Table("saCobroTPReng",
           <<"saCobro", "saCaja", "saMovimientoCaja", "saMovimientoBanco">>, 9),
     Table("saCobroRentenReng", <<"saCobro">>, 10),
     Table("saCobroRetenIvaReng", <<"saCobro">>, 11),
     Table("saSaldoCaja", <<"saCaja">>, 12),
     Table("saSaldoBanco", <<>>, 13) >>

Known == {"a", "b", "c"}
Lists == UNION {[1..n -> Known \cup {"unknown"}] : n \in 0..2}

Small ==
  {<<Table("a", x, 99), [Table("b", y, 99) EXCEPT !.batch_size = size], Table(last, z, 99)>> :
     x \in Lists, y \in Lists, z \in Lists, last \in {"b", "c"}, size \in {0, 500}}

SmallAndShipped == Small \cup {Shipped, <<>>}

\* The shipped tables are accepted, and run after those they depend on.
ShippedIsRunnable ==
  tables = Shipped => verdict # "rejected" /\ RunsParentsFirst(tables)

PureInit == Init /\ RowInit

PureNext ==
  \/ Next /\ UNCHANGED content
  \/ tables = <<>> /\ RowNext /\ UNCHANGED vars

PureSpec == PureInit /\ [][PureNext]_<<vars, content>>

HexText == [b \in Binary |-> "hex"]
=============================================================================
