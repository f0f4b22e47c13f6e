------------------------------ MODULE ModuleUse ------------------------------
(* An identifier followed by operations, `pe.sections[1].name`, and the type   *)
(* it has: boreal/src/compiler/module.rs.  A module gives values at            *)
(* compilation (static) and types for those it computes in a scan (dynamic);   *)
(* a static value is written as its type, since only its kind matters.         *)
EXTENDS Combinators, Naturals

ExprKinds == {"integer", "float", "bytes", "regex", "boolean"}

Type(kind) == [kind |-> kind]
ArrayOf(item) == [kind |-> "array", item |-> item]
DictionaryOf(item) == [kind |-> "dictionary", item |-> item]
Object(fields) == [kind |-> "object", fields |-> fields]
\* `arguments` is the set of the sequences of kinds the function takes.
Function(arguments, returns) ==
    [kind |-> "function", arguments |-> arguments, returns |-> returns]
NoType == Type("none")

\* The compiled expressions: `at` is what the node holds besides its operands.
Code(op, at, args) == [op |-> op, at |-> at, args |-> args]

-----------------------------------------------------------------------------
(* ModuleUse: the type reached, whether it is that of a static value, the last *)
(* static value, and what is left to do in the scan, from the value `start`.   *)

Start(on, at, type) == [on |-> on, at |-> at, type |-> type]
NewUse(start, current, static) ==
    [error |-> "none", start |-> start, current |-> current, static |-> static,
     last |-> IF static THEN current ELSE NoType, expressions |-> <<>>, operations |-> <<>>]
Failed(r) == r.error # "none"
Err(name) == [error |-> name]

\* compile_bounded_identifier_use.
BoundedUse(index, name, type) ==
    NewUse(Start("stack", [index |-> index, name |-> name], type), type, FALSE)

\* compile_identifier: the first operation must be a subfield, which is applied
\* now if it is a static value, and in the scan otherwise.
ModuleFieldUse(module, ops) ==
    CASE ops = <<>> -> Err("InvalidIdentifierUse")
      [] ops # <<>> /\ Head(ops).op # "subfield" -> Err("InvalidIdentifierType")
      [] OTHER ->
            LET field == Head(ops).args[1]
            IN  IF field \in DOMAIN module.static
                THEN NewUse(Start("function", field, module.static[field]),
                            module.static[field], TRUE)
                ELSE NewUse(Start("module", module.name, Object(module.dynamic)),
                            Object(module.dynamic), FALSE)
\* The operations that are left once the use is begun.
LeftOf(use, ops) == IF use.static THEN Tail(ops) ELSE ops

\* A static subfield is a value at once; any other is an operation of the scan.
subfield_of(use, field) ==
    CASE use.current.kind # "object" -> Err("InvalidIdentifierType")
      [] use.current.kind = "object" /\ field \notin DOMAIN use.current.fields ->
            Err("UnknownIdentifierField")
      [] OTHER ->
            LET value == use.current.fields[field]
            IN  IF use.static THEN [use EXCEPT !.current = value, !.last = value]
                ELSE [use EXCEPT !.current = value,
                                 !.operations = Append(@, [op |-> "subfield", name |-> field])]

IndexKind(type) == IF type.kind = "array" THEN "integer" ELSE "bytes"

\* A static value cannot be subscripted.
subscript_of(use, code, ty) ==
    CASE use.static \/ use.current.kind \notin {"array", "dictionary"} -> Err("InvalidIdentifierType")
      [] ~use.static /\ use.current.kind \in {"array", "dictionary"} /\ ty # IndexKind(use.current) ->
            Err("InvalidIdentifierIndexType")
      [] OTHER -> [use EXCEPT !.current = @.item, !.expressions = Append(@, code),
                              !.operations = Append(@, [op |-> "subscript"])]

check_all_arguments_types(function, kinds) ==
    \/ function.arguments = {} /\ kinds = <<>>
    \/ kinds \in function.arguments

\* Mutation: the arguments of a function are not checked.
function_callAnyArguments(use, codes, kinds) ==
    IF use.current.kind # "function" THEN Err("InvalidIdentifierType")
    ELSE [use EXCEPT !.current = @.returns, !.static = FALSE,
                     !.expressions = @ \o codes,
                     !.operations = Append(@, [op |-> "call", arguments |-> Len(codes)])]

\* What a function returns is computed in the scan, even for a static one.
function_call(use, codes, kinds) ==
    CASE use.current.kind # "function" -> Err("InvalidIdentifierType")
      [] use.current.kind = "function" /\ ~check_all_arguments_types(use.current, kinds) ->
            Err("InvalidIdentifierCall")
      [] OTHER -> [use EXCEPT !.current = @.returns, !.static = FALSE,
                              !.expressions = @ \o codes,
                              !.operations = Append(@, [op |-> "call", arguments |-> Len(codes)])]

-----------------------------------------------------------------------------

\* into_type: a static object or function has none.
HasType(use) == use.static => use.current.kind \notin {"object", "function"}

ModuleCode(use) ==
    Code("module", [start |-> use.start, operations |-> use.operations], use.expressions)

\* into_expression: [code, ty], or NoType.  A static value that is not a function is
\* written in the condition.
into_expression(use) ==
    LET code == IF use.last.kind \in ExprKinds THEN Code("value", use.last.kind, <<>>)
                ELSE ModuleCode([use EXCEPT !.start.type = IF use.last = NoType THEN @ ELSE use.last])
    IN  IF \/ use.last.kind = "object" \/ ~HasType(use)
           \/ use.current.kind \notin ExprKinds \ {"regex"}
        THEN NoType
        ELSE [kind |-> use.current.kind, code |-> code]

\* into_iterator_expression: what the value holds, or NoType.  Only a dynamic value has
\* an index to iterate on.
into_iterator_expression(use) ==
    IF \/ use.start.on = "function" \/ ~HasType(use)
       \/ use.current.kind \notin {"array", "dictionary"}
    THEN NoType
    ELSE [kind |-> use.current.kind, item |-> use.current.item, code |-> ModuleCode(use)]
==============================================================================
