-------------------------- MODULE PatternCodegen --------------------------
(***************************************************************************)
(* The code generator of core/src/compiler_codegen.c: from a pattern tree  *)
(* (ast_node_t) to a program of PatternVM, and the peephole pass of        *)
(* core/src/compiler_analysis.c that fuses alternations of single          *)
(* characters.  Used by TLC only (it is recursive).                        *)
(*                                                                         *)
(* A tree is a record with the node's type and operands.  The compiler's   *)
(* static state is passed along: st.code (the CodeBuf), st.loops           *)
(* (next_loop_id), st.labels (the label table) and st.ok, FALSE once a     *)
(* helper has returned -1.  Addresses are indices of st.code.              *)
(***************************************************************************)
EXTENDS Integers, Sequences

\* MAX_LOOPS in the VM's header
CONSTANT MAX_LOOPS

UNBOUNDED == -1

EmptyCode == [code |-> <<>>, loops |-> 0, labels |-> <<>>, ok |-> TRUE]
Here(st) == Len(st.code) + 1
Put(st, instr) == [st EXCEPT !.code = Append(@, instr)]
Patch(st, at, instr) == [st EXCEPT !.code[at] = instr]
Refuse(st) == [st EXCEPT !.ok = FALSE]

\* find_label_c / get_or_create_label_c: the ids are the positions in the
\* table; target 0 stands for a label referenced but not defined yet.
LabelId(st, name) ==
    IF \E i \in DOMAIN st.labels : st.labels[i].name = name
      THEN CHOOSE i \in DOMAIN st.labels : st.labels[i].name = name
      ELSE Len(st.labels) + 1
WithLabel(st, name) ==
    IF LabelId(st, name) <= Len(st.labels) THEN st
    ELSE [st EXCEPT !.labels = Append(@, [name |-> name, target |-> 0])]

\* Nodes that are one instruction, operands unchanged: literals, classes,
\* cursor and control primitives, ASSIGN, EVAL, EMIT.
LeafTypes == {"LIT", "ANY", "NOTANY", "SPAN", "BREAK", "BREAKX", "LEN",
              "ANCHOR", "REM", "POS", "RPOS", "TAB", "RTAB", "BAL", "FENCE",
              "ABORT", "FAIL", "SUCCEED", "ASSIGN", "EVAL",
              "EMIT_LITERAL", "EMIT_CAPTURE"}

IsStar(node) == node.op = "REPETITION" /\ node.min = 0 /\ node.max = UNBOUNDED

RECURSIVE EmitNode(_, _), EmitSeq(_, _), UnwrapArbno(_), UnwrapStar(_)

\* The unwrapping loops of emit_arbno_c: first nested ARBNOs, then (0, -1)
\* repetitions.
UnwrapArbno(node) == IF node.op = "ARBNO" THEN UnwrapArbno(node.sub) ELSE node
UnwrapStar(node)  == IF IsStar(node) THEN UnwrapStar(node.sub) ELSE node

\* The loop skeleton shared by emit_arbno_c and emit_repeat_c.
EmitLoop(sub, id, min, max, st) ==
    LET at   == Here(st)
        init == [op |-> "REPEAT_INIT", loop |-> id, min |-> min, max |-> max, skip |-> 0]
        body == EmitNode(sub, Put(st, init))
        done == Put(body, [op |-> "REPEAT_STEP", loop |-> id, target |-> at + 1])
    IN  IF ~body.ok THEN body
        ELSE Patch(done, at, [init EXCEPT !.skip = Here(done)])

EmitArbno(node, st) ==
    LET sub == UnwrapStar(UnwrapArbno(node))
    IN  IF st.loops >= MAX_LOOPS THEN Refuse(st)
        ELSE EmitLoop(sub, st.loops, 0, UNBOUNDED, [st EXCEPT !.loops = @ + 1])

\* The loop id is taken before a star is handed to emit_arbno_c, which takes
\* another one.
EmitRepeat(node, st) ==
    LET st1 == [st EXCEPT !.loops = @ + 1]
    IN  IF st.loops >= MAX_LOOPS THEN Refuse(st)
        ELSE IF IsStar(node) THEN EmitArbno(UnwrapStar(node.sub), st1)
        ELSE EmitLoop(node.sub, st.loops, node.min, node.max, st1)

EmitAlt(node, st) ==
    LET at    == Here(st)
        left  == EmitNode(node.left, Put(st, [op |-> "SPLIT", a |-> 0, b |-> 0]))
        jmp   == Here(left)
        right == EmitNode(node.right, Put(left, [op |-> "JMP", target |-> 0]))
    IN  IF ~left.ok THEN left
        ELSE IF ~right.ok THEN right
        ELSE Patch(Patch(right, at, [op |-> "SPLIT", a |-> at + 1, b |-> jmp + 1]),
                   jmp, [op |-> "JMP", target |-> Here(right)])

\* A capture around a sub-pattern.
EmitCap(r, sub, st) ==
    LET body == EmitNode(sub, Put(st, [op |-> "CAP_START", r |-> r]))
    IN  IF ~body.ok THEN body ELSE Put(body, [op |-> "CAP_END", r |-> r])

\* The key of a table node: captured in register 0, or (AST_REG_REF) taken
\* from a register that an earlier capture has filled.
IsRegRef(key) == key.op = "REG_REF"
KeyReg(key) == IF IsRegRef(key) THEN key.r ELSE 0
EmitKey(key, st) == IF IsRegRef(key) THEN st ELSE EmitCap(0, key, st)

EmitTableGet(node, st) ==
    LET key == EmitKey(node.key, st)
    IN  IF ~key.ok THEN key
        ELSE Put(key, [op |-> "TABLE_GET", table |-> node.table, key |-> KeyReg(node.key)])

\* The value is captured in register 1, whatever the key's register is.
EmitTableSet(node, st) ==
    LET key == EmitKey(node.key, st)
        val == EmitCap(1, node.value, key)
    IN  IF ~key.ok THEN key
        ELSE IF ~val.ok THEN val
        ELSE Put(val, [op |-> "TABLE_SET", table |-> node.table,
                       key |-> KeyReg(node.key), value |-> 1])

\* A second definition of a label is refused; the label's target is the
\* instruction behind OP_LABEL.
EmitLabel(node, st) ==
    LET st1 == WithLabel(st, node.name)
        id  == LabelId(st, node.name)
        st2 == Put(st1, [op |-> "LABEL"])
    IN  IF id <= Len(st.labels) /\ st.labels[id].target # 0 THEN Refuse(st)
        ELSE EmitNode(node.sub, [st2 EXCEPT !.labels[id].target = Here(st2)])

EmitGoto(node, st) ==
    Put(WithLabel(st, node.name), [op |-> "GOTO", label |-> LabelId(st, node.name)])

EmitSeq(parts, st) ==
    IF parts = <<>> \/ ~st.ok THEN st
    ELSE EmitSeq(Tail(parts), EmitNode(Head(parts), st))

\* emit_node_c
EmitNode(node, st) ==
    CASE node.op \in LeafTypes     -> Put(st, node)
      [] node.op = "CONCAT"        -> EmitSeq(node.parts, st)
      [] node.op = "ALT"           -> EmitAlt(node, st)
      [] node.op = "REPETITION"    -> EmitRepeat(node, st)
      [] node.op = "ARBNO"         -> EmitArbno(node.sub, st)
      [] node.op = "CAP"           -> EmitCap(node.r, node.sub, st)
      [] node.op = "TABLE_ACCESS"  -> EmitTableGet(node, st)
      [] node.op = "TABLE_UPDATE"  -> EmitTableSet(node, st)
      [] node.op = "LABEL_DEF"     -> EmitLabel(node, st)
      [] node.op = "GOTO_STMT"     -> EmitGoto(node, st)

(***************************************************************************)
(* snobol_bc_fuse_split_any, from the last instruction to the first.  The  *)
(* code goes from the last BYTE to the first, so that a byte of a literal  *)
(* or an operand equal to OP_SPLIT is looked at as well; it is rewritten   *)
(* only if the two words behind it are addresses further on of single      *)
(* characters that meet.  Such texts are outside the model, whose scan     *)
(* sees instructions only.                                                 *)
(***************************************************************************)
\* parse_arm_a / parse_arm_b: one character, as a class.
IsChar(i) == i.op = "ANY" \/ (i.op = "LIT" /\ Len(i.text) = 1)
ClassOf(i) == IF i.op = "ANY" THEN i.set ELSE {i.text[1]}

\* The first address from k on that holds no NOP.
PastNops(code, k) ==
    CHOOSE m \in k .. Len(code) + 1 :
        /\ m > Len(code) \/ code[m].op # "NOP"
        /\ \A x \in k .. m - 1 : code[x].op = "NOP"

\* SPLIT at k joins two single-character arms that meet at m.
Fusible(code, k) ==
    LET a == code[k].a
        b == code[k].b
        j == PastNops(code, a + 1)
    IN  /\ code[k].op = "SPLIT"
        /\ a > k /\ b > k
        /\ a <= Len(code) /\ b <= Len(code)
        /\ IsChar(code[a]) /\ IsChar(code[b])
        /\ j <= Len(code) /\ code[j].op = "JMP"
        /\ code[j].target = PastNops(code, b + 1)

FuseAt(code, k) ==
    LET m == PastNops(code, code[k].b + 1)
    IN  [i \in DOMAIN code |->
            IF i = k THEN [op  |-> "ANY",
                           set |-> ClassOf(code[code[k].a]) \cup ClassOf(code[code[k].b])]
            ELSE IF i \in k + 1 .. m - 1 THEN [op |-> "NOP"]
            ELSE code[i]]

FuseSplitAny(code) ==
    LET f[k \in 0 .. Len(code)] ==
          \* the code after the scan has passed the last k addresses
          IF k = 0 THEN code
          ELSE LET c  == f[k - 1]
                   at == Len(code) + 1 - k
               IN  IF c[at].op = "SPLIT" /\ Fusible(c, at) THEN FuseAt(c, at) ELSE c
    IN  f[Len(code)]

\* compile_ast_to_bytecode_c: refuses a tree with an undefined label; the
\* fusion pass runs on the finished code.
Compile(node) ==
    LET st == EmitNode(node, EmptyCode)
    IN  IF ~st.ok \/ \E i \in DOMAIN st.labels : st.labels[i].target = 0
          THEN [ok |-> FALSE, code |-> <<>>, labels |-> <<>>]
          ELSE [ok |-> TRUE,
                code |-> FuseSplitAny(Append(st.code, [op |-> "ACCEPT"])),
                labels |-> [i \in DOMAIN st.labels |-> st.labels[i].target]]
=============================================================================
