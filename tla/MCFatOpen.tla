----------------------------- MODULE MCFatOpen -----------------------------
(* A volume of 24 clusters of two items each.  The root directory is full, *)
(* and has a label, a deleted entry, a part of a long name, two entries d, *)
(* and directories of every sort:                                          *)
(*   d  clusters 2, 4, 3, with . and .., whose first cluster is 0          *)
(*   e  empty                     x  full, its chain ends without an empty *)
(*   c  full and circular            item                                  *)
(*   z  the same, with an empty   o  full, its chain goes on at cluster 1  *)
(*      item in front of it                                                *)
(* and d has a directory d of its own.                                     *)
EXTENDS FatOpen

I(kind, base, ext, cluster) == [kind |-> kind, base |-> base, ext |-> ext, cluster |-> cluster]

Dir(code, cluster)  == I("directory", <<code, 32>>, <<32>>, cluster)
File(code, cluster) == I("file", <<code, 32>>, <<32>>, cluster)

MCRoot ==
  <<I("label", <<68, 32>>, <<32>>, 0), I("deleted", <<229, 32>>, <<32>>, 19),
    I("longname", <<65, 102>>, <<0>>, 0), I("file", <<70, 32>>, <<84>>, 20), File(70, 21),
    Dir(68, 2), Dir(69, 5), Dir(88, 6), Dir(67, 7), Dir(90, 10), Dir(79, 11),
    File(68, 22), I("file", <<70, 70>>, <<0>>, 23), File(76, 24)>>

ClusterItems ==
  2 :> <<Dir(46, 2), I("directory", <<46, 46>>, <<32>>, 0)>>
  @@ 4 :> <<Dir(68, 12), File(70, 25)>>
  @@ 3 :> <<I("file", <<71, 32>>, <<116>>, 14), I("empty", <<0, 0>>, <<0>>, 0)>>
  @@ 6 :> <<File(70, 20), File(71, 20)>>
  @@ 7 :> <<File(70, 20), File(71, 20)>>
  @@ 8 :> <<File(72, 20), File(73, 20)>>
  @@ 10 :> <<File(70, 20), File(71, 20)>>
  @@ 11 :> <<File(70, 20), File(71, 20)>>
  @@ 12 :> <<I("directory", <<46, 46>>, <<32>>, 2), File(70, 15)>>

MCItemAt ==
  [p \in {4 + 2*i : i \in 0 .. 13} |-> MCRoot[(p - 4) \div 2 + 1]]
  @@ [p \in {4*c + 24 + 2*i : c \in DOMAIN ClusterItems, i \in 0 .. 1} |->
        ClusterItems[(p - 24) \div 4][((p % 4) \div 2) + 1]]

MCFat ==
  (2 :> 4 @@ 4 :> 3 @@ 7 :> 8 @@ 8 :> 7 @@ 10 :> 10 @@ 11 :> 1 @@ 12 :> 13)
  @@ [c \in 0 .. 25 |-> EOC]

f == <<102>>
d == <<100>>
up == <<46, 46>>

MCPaths ==
  {<<f>>, <<<<70, 46, 116>>>>, <<d>>, <<<<71>>>>, <<<<70, 102>>>>, <<<<108>>>>, <<<<229>>>>,
   <<<<97, 102>>>>, <<<<46>>>>, <<<<102, 46>>>>, <<<<68>>, f>>, <<d, <<103, 46, 84>>>>,
   <<d, d, f>>, <<d, d, up, f>>, <<d, up, f>>, <<<<101>>, f>>, <<<<101>>>>, <<<<120>>, f>>,
   <<<<120>>>>, <<<<99>>, f>>, <<<<122>>, f>>, <<<<111>>, f>>, <<f, f>>, <<d, <<113>>, f>>,
   <<d, f, f>>}

ASSUME MCSoundVolume == SoundVolume
=============================================================================
