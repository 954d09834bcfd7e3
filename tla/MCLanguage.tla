----------------------------- MODULE MCLanguage -----------------------------
(***************************************************************************)
(* Machine on the programs of Programs, compared with Reference.           *)
(***************************************************************************)
EXTENDS Machine, Programs

CONSTANTS Loops, Contexts, Effects, Numbers_    \* what is combined

MCModules == ModulesOf

Combined == {k \in Loops \X Contexts \X Effects : Sensible(k[2], k[3])}
Constants_ == {"Add", "Sub", "Mul", "Div", "Mod", "Pow", "Eq", "Lt", "Ge"} \X Numbers_ \X Numbers_
MCKeys == Combined \cup Constants_ \cup {<<x>> : x \in DOMAIN Written \cup DOMAIN Sessions \cup DOMAIN NotLegal}

KeysStaleTry == {<<"staleTry">>}
KeysOrPattern == {<<"orPattern">>}

Written_ == Written @@ Sessions @@ NotLegal @@ Shapes
MCSource ==
    [k \in Keys |->
        CASE Len(k) = 1 -> Written_[k[1]]
          [] Len(k) = 3 -> IF k[1] \in Loops THEN Generated(k[1], k[2], k[3]) ELSE Constant(k[1], k[2], k[3])]

P == INSTANCE Parser
G == INSTANCE Grammar
R == INSTANCE Reference WITH Deepest <- 7

(* The machine gives what the program means: a line of it that ends, ends as *)
(* Reference says.                                                          *)
ResultAgrees ==
    [][LET n == Len(session'.given)
       IN n > Len(session.given) => session'.given[n] = R!Meaning(Source[script])[n]]_vars

-----------------------------------------------------------------------------
(* The text of a line is read as that line.  With one statement that is not *)
(* a statement, or a forgotten `;`, the mistake is reported and what comes  *)
(* before and after it is read as it stands.                                *)
Reads(line, sugared) ==
    LET read == P!ParseProgram(G!Written(line, sugared))
    IN read.errs = <<>> /\ G!Bare(read.block) = G!Bare(line)

Mistakes == {<<<<")">>>>, <<<<"Int", 1>>, <<"+">>>>, <<<<"(">>, <<"fn">>, <<";">>, <<"Int", 1>>, <<")">>, <<"=">>, <<"Int", 1>>>>,
             <<<<"[">>, <<"if">>, <<"]">>, <<"{">>, <<";">>, <<"}">>>>, <<<<"Int", 1>>, <<":=">>, <<"Int", 2>>>>}
ReadsAround(line, k) ==
    LET before == SubSeq(line.kids, 1, k - 1)
        after == SubSeq(line.kids, k + 1, Len(line.kids))
        text(es) == G!Statements(es, FALSE, FALSE)
        forgotten == text(before) \o G!Text(line.kids[k], 1, FALSE)
        reports(toks, es) ==
            LET read == P!ParseProgram(toks \o text(after) \o <<G!Eof>>)
            IN /\ read.errs # <<>>
               /\ [i \in DOMAIN read.block.kids |-> G!Bare(read.block.kids[i])] = [i \in DOMAIN es |-> G!Bare(es[i])]
    IN /\ \A mistake \in Mistakes : reports(text(before) \o mistake \o <<<<";">>>>, before \o after)
       /\ after # <<>> /\ text(after)[1][1] \in {"Ident", "Int", "if", "for", "try"} => reports(forgotten, line.kids)

ReadAsWritten ==
    [][HasLine /\ table' # table =>
        LET line == Lines[Len(session.given) + 1]
            isWritten == Len(script) = 1
        IN /\ Reads(line, FALSE)
           /\ isWritten => Reads(line, TRUE)
           /\ isWritten => \A k \in DOMAIN line.kids : ReadsAround(line, k)
           /\ script = <<"syntax">> => \A i \in DOMAIN AllSyntax : Reads(AllSyntax[i], FALSE) /\ Reads(AllSyntax[i], TRUE)]_vars
=============================================================================
