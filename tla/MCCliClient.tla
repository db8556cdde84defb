---------------------------- MODULE MCCliClient ----------------------------
(* CliClient for TLC, with the inputs of corr-local.                        *)
EXTENDS CliClient

CONSTANT Gap   \* a day without a record

Series(values) ==
  LET days == SelectSeq(<<4, 2, 5, 1, 3>>, LAMBDA d : values[d] # Gap)
  IN [i \in DOMAIN days |-> [date |-> days[i], value |-> values[days[i]]]]

Alpha(id, values) == [id |-> id, records |-> Series(values)]

(* A rise, a fall, a gap of the series, one in its values, a late start, a  *)
(* flat line, too short a series.                                           *)
Shapes ==
  <<<<0, 1, 3, 2, 5>>, <<9, 7, 2, 3, 0>>, <<1, Gap, 0, 3, 1>>, <<0, NaN, 1, NaN, 2>>,
    <<Gap, NaN, 0, 2, 1>>, <<4, 4, 4, 4, 4>>, <<Gap, Gap, Gap, 1, 2>>, <<NaN, NaN, NaN, NaN, NaN>>>>

Input(c, m, n) ==
  [candidate |-> Alpha("a", Shapes[c]),
   neighbours |-> <<Alpha("b", Shapes[m]), Alpha("a", Shapes[c]), Alpha("c", Shapes[n]),
                    Alpha("d", <<0, 2, 3, 5, 4>>)>>]

Inputs ==
  LET n == Len(Shapes)
  IN [i \in 1 .. n * n |-> Input(1 + ((i - 1) \div n), 1 + (i % n), 1 + (i % 3))]
       \o [i \in 1 .. n |-> [Input(i, 1, 2) EXCEPT !.candidate.id = "none"]]

=============================================================================
