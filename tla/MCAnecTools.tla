---- MODULE MCAnecTools ----
(* Containers of one to four tasks for AnecTools: whole, split and blob     *)
(* kernels, one and two inputs, a task without the leading record, an extra *)
(* word, tasks longer than the clamp, and containers the parser refuses.    *)
EXTENDS AnecTools

Sel(src, dst) == src + SelBase ^ 2 * dst
Task(id, next, sel, extra, records, size) ==
  LET body == <<Hdr0(id, 0, 0), next, sel, extra>> \o (IF extra = 3 THEN <<0>> ELSE <<>>)
                \o records
  IN  body \o (IF Len(body) < size THEN <<0>> ELSE <<>>)
           \o [i \in 1..MaxOf(0, size - Len(body) - 1) |-> 70 + i]
Rec(reg, values) == <<reg + RecBase * Len(values)>> \o values
Lead(v) == Rec(LeadRegister, <<v>>)
Dma(total, run) == Rec(TileDmaRegister, <<total, run, total, run>>)

First(next, src, dst) == Task(0, next, Sel(src, dst), 0, Lead(21) \o Dma(16, 8), 16)
Second(next, src, dst) == Task(1, next, Sel(src, dst), 0, Lead(22), 8)
Third(next, src, dst, size) == Task(2, next, Sel(src, dst), 0, Lead(23), size)
Fourth(src, dst) == Task(3, 0, Sel(src, dst), 0, Lead(24), 8)
Silent(src, dst) == Task(0, 16, Sel(src, dst), 0, Rec(9, <<21>>), 16)
WithExtra(src, dst) == Task(2, 0, Sel(src, dst), 3, Lead(25), 8)
Long(src, dst) == Task(2, 0, Sel(src, dst), 0, Lead(26) \o Rec(9, <<1, 2, 3, 4, 5, 6, 7>>), 17)

Sect(off, size) == [off |-> off, size |-> size]
Weights == <<501, 502, 503, 504, 505, 506>>
BlobFile == <<1, Sentinel, 6, 8, Sentinel, 5, 7, 0>> \o Weights
TwoPayloads == <<1, Sentinel, 6, 8, Sentinel, 6, 8, 0>> \o Weights

\* Two words of load commands, the stream, padding, the kernel (in two parts
\* when gap >= 0), one word behind it.
Container(text, kernel, gap, inputs, outputs, inputFirst, blob) ==
  LET at == 2 + AlignUp(Len(text), KernelAlign)
      half == Len(kernel) \div 2
      lead == <<0, 0>> \o text \o ZeroWords(at - 2 - Len(text))
      whole == gap < 0
  IN  [data |-> lead \o (IF whole THEN kernel
                         ELSE SubSeq(kernel, 1, half) \o [i \in 1..gap |-> 88]
                                \o SubSeq(kernel, half + 1, Len(kernel))) \o <<99>>,
       sections |-> IF whole THEN [text |-> Sect(2, Len(text)), const |-> Sect(at, Len(kernel))]
                    ELSE [text |-> Sect(2, Len(text)), const |-> Sect(at, half),
                          kern_0 |-> Sect(at + half + gap, Len(kernel) - half)],
       segment |-> Sect(2, at - 2 + Len(kernel) + (IF whole THEN 1 ELSE gap)),
       inputs |-> inputs, outputs |-> outputs, bss |-> 4, inputFirst |-> inputFirst,
       inShape |-> <<2, 2, 3>>, outShape |-> <<2, 1, 5>>, blob |-> blob]

ThreeTasks(src, dst) == First(16, src, dst) \o Second(24, src, dst) \o Third(0, src, dst, 7)

Plain == Container(ThreeTasks(4, 5), Weights, -1, <<16>>, <<16>>, TRUE, <<>>)
MCFiles == {
  Plain,
  Container(ThreeTasks(4, 5), Weights, 2, <<16>>, <<16>>, TRUE, <<>>),
  Container(ThreeTasks(4, 5), Weights, 0, <<16>>, <<16>>, TRUE, <<>>),
  Container(ThreeTasks(5, 4), Weights, -1, <<3>>, <<9>>, FALSE, <<>>),
  Container(ThreeTasks(5, 6), Weights, -1, <<16, 5>>, <<20>>, TRUE, <<>>),
  Container(First(0, 4, 5), Weights, -1, <<16>>, <<16>>, TRUE, <<>>),
  Container(Silent(4, 5) \o Second(0, 4, 5), Weights, -1, <<16>>, <<16>>, TRUE, <<>>),
  Container(First(16, 4, 5) \o Second(24, 4, 5) \o Third(32, 4, 5, 8) \o Fourth(4, 5),
            Weights, -1, <<16>>, <<16>>, TRUE, <<>>),
  Container(First(16, 4, 5) \o Second(24, 4, 5) \o WithExtra(4, 5), Weights, -1,
            <<16>>, <<16>>, TRUE, <<>>),
  Container(First(16, 4, 5) \o Second(24, 4, 5) \o Long(4, 5), Weights, -1,
            <<16>>, <<16>>, TRUE, <<>>),
  Container(First(16, 4, 5) \o Second(24, 4, 5) \o Long(4, 5), ZeroWords(40), -1,
            <<16>>, <<16>>, TRUE, <<>>),
  Container(ThreeTasks(4, 5), <<1, Sentinel, 6, 8, Sentinel, 5>>, -1, <<16>>, <<16>>, TRUE, BlobFile),
  Container(ThreeTasks(4, 5), <<1, Sentinel, 6, 8, Sentinel, 6>>, -1, <<16>>, <<16>>, TRUE, TwoPayloads),
  Container(ThreeTasks(4, 9), Weights, -1, <<16>>, <<16>>, TRUE, <<>>),
  Container(First(13, 4, 5) \o Second(0, 4, 5), Weights, -1, <<16>>, <<16>>, TRUE, <<>>),
  [Plain EXCEPT !.sections["const"].off = @ + 1],
  [Plain EXCEPT !.inputs = <<>>]}
MCConverted == [f \in MCFiles |-> Conversions(f)]
====
