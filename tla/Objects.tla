-------------------------------- MODULE Objects --------------------------------
(***************************************************************************)
(* object.c: the values that the compiler, the machine and the macro       *)
(* expander handle.  Every object is a tuple tagged with its type.  NIL    *)
(* and T are symbols; a list that is not empty holds a sequence, NIL is    *)
(* the empty list.                                                         *)
(***************************************************************************)

Sym(s) == <<"sym", s>>
Num(n) == <<"num", n>>
Native(f) == <<"native", f>>
CodeRef(k) == <<"code", k>>
List(s) == <<"list", s>>
StackOffset(n) == <<"off", n>>
Nil == Sym("NIL")
T == Sym("T")
SigError == Sym("SIG-ERROR")
TypeError == Sym("TYPE-ERROR")

IsOffset(b) == b[1] = "off"
IsCons(x) == x[1] = "list"
Items(x) == IF IsCons(x) THEN x[2] ELSE << >>

(* print_object shows a compiled function by its address alone.            *)
Shown(v) == IF v[1] = "code" THEN <<"code">> ELSE v

===============================================================================
