------------------------------- MODULE Workloads -------------------------------
(***************************************************************************)
(* The message length distributions w1 to w5 of model/dist.cc, every point *)
(* of the tables as compiled (of w4 the #else part): a length in bytes and *)
(* the fraction of messages up to that length, in parts of 10^9 (the       *)
(* source has up to 15 decimals; rounding merges no two points).           *)
(***************************************************************************)
EXTENDS Naturals, Sequences

One == 1000000000

\* A table written as lengths and fractions in turn.
cdf(numbers) ==
  [i \in 1..(Len(numbers) \div 2) |->
     [length |-> numbers[2 * i - 1], fraction |-> numbers[2 * i]]]

w1 == cdf(<<
  8,310940000, 9,319310000, 10,327680000, 11,417570000, 12,418490000, 13,421750000, 14,441550000, 15,470000000,
  16,474821817, 17,477306735, 18,478598446, 19,481284092, 20,484111103, 21,485579553, 22,488630277, 23,490214146,
  24,493502936, 25,495209487, 26,496958569, 27,500587629, 28,502469264, 29,504396739, 30,506370885, 31,508392529,
  32,510462494, 33,512581600, 34,514750664, 35,516970493, 36,519241887, 37,521565636, 38,523942519, 39,526373303,
  40,528858739, 41,531399561, 43,533996486, 44,536650210, 45,539361406, 47,542130724, 48,544958785, 50,547846182,
  51,550793477, 53,553801197, 54,556869834, 56,559999840, 57,563191625, 59,566445557, 61,569761954, 63,573141087,
  65,576583174, 67,580088375, 69,583656795, 71,587288477, 73,590983400, 75,594741474, 77,598562542, 79,602446373,
  82,606392661, 84,610401022, 87,614470989, 89,618602014, 92,622793460, 95,627044604, 97,631354631, 100,635722631,
  103,640147600, 106,644628438, 110,649163943, 113,653752815, 116,658393650, 120,663084943, 123,667825085,
  127,672612360, 131,677444952, 135,682320936, 139,687238286, 143,692194870, 147,697188456, 151,702216710,
  156,707277198, 161,712367390, 165,717484660, 170,722626294, 175,727789486, 181,732971348, 186,738168911,
  191,743379130, 197,748598891, 203,753825015, 209,759054261, 215,764283339, 222,769508909, 228,774727594,
  235,779935984, 242,785130643, 249,790308120, 257,795464954, 264,800597682, 272,805702853, 280,810777029,
  289,815816797, 297,820818780, 306,825779643, 315,830696102, 324,835564934, 334,840382984, 344,845147177,
  354,849854520, 365,854502115, 376,859087167, 387,863606989, 398,868059008, 410,872440776, 422,876749972,
  435,880984410, 448,885142043, 461,889220968, 475,893219432, 489,897135830, 503,900968716, 518,904716796,
  534,908378937, 549,911954165, 566,915441665, 582,918840782, 600,922151017, 618,925372031, 636,928503637,
  655,931545802, 674,934498640, 694,937362412, 715,940137516, 736,942824491, 758,945424003, 780,947936844,
  804,950363927, 827,952706278, 852,954965028, 877,957141410, 903,959236752, 930,961252465, 958,963190043,
  986,965051050, 1015,966837118, 1046,968549936, 1077,970191243, 1108,971762825, 1141,973266505, 1175,974704138,
  1210,976077602, 1246,977388794, 1283,978639625, 1321,979832013, 1360,980967876, 1401,982049128, 1442,983077677,
  1485,984055415, 1529,984984218, 1574,985865942, 1621,986702415, 1669,987495438, 1719,988246782, 1770,988958181,
  1822,989631336, 1876,990267906, 1932,990869511, 1989,991437729, 2048,991974094, 2109,992480096, 2172,992957179,
  2236,993406740, 2303,993830133, 2371,994228662, 2441,994603584, 2514,994956113, 2588,995287413, 2665,995598603,
  2744,995890759, 2826,996164908, 2909,996422038, 2996,996663089, 3085,996888963, 3176,997100519, 3270,997298575,
  3367,997483912, 3467,997657273, 3570,997819362, 3676,997970851, 3785,998112375, 3897,998244538, 4013,998367911,
  4132,998483035, 4255,998590422, 4381,998690556, 4511,998783892, 4645,998870863, 4782,998951875, 4924,999027312,
  5070,999097533, 5221,999162880, 5376,999223672, 5535,999280208, 5699,999332772, 5868,999381628, 6043,999427025,
  6222,999469197, 6406,999508362, 6596,999544724, 6792,999578477, 6994,999609798, 7201,999638857, 7415,999665810,
  7635,999690804, 7861,999713976, 8094,999735454, 8334,999755359, 8582,999773800, 8836,999790883, 9098,999806703,
  9368,999821353, 9646,999834915, 9932,999847468, 10227,999859085, 10530,999869835, 10843,999879779, 11164,999888977,
  11496,999897484, 11837,999905349, 12188,999912621, 12549,999919344, 12922,999925557, 13305,999931298,
  13700,999936604, 14106,999941505, 14524,999946032, 14955,999950214, 15399,999954076, 15856,999957642,
  16326,999960935, 16810,999963975, 17309,999966780, 17822,999969370, 18351,999971760, 18896,999973966,
  19456,999976001, 20033,999977878, 20627,999979610, 21239,999981208, 21869,999982682, 22518,999984041,
  23186,999985294, 23874,999986450, 24582,999987516, 25311,999988498, 26062,999989404, 26835,999990239,
  27631,999991008, 28451,999991718, 29295,999992372, 30164,999992974, 31059,999993529, 31980,999994041,
  32929,999994512, 33905,999994947, 34911,999995347, 35947,999995716, 37013,999996055, 38111,999996368,
  39242,999996656, 40406,999996922, 41604,999997166, 42838,999997391, 44109,999997598, 45418,999997789,
  46765,999997965, 48152,999998127, 49580,999998276, 51051,999998413, 52565,999998540, 54125,999998656,
  55730,999998763, 57383,999998862, 59086,999998952, 60838,999999036, 62643,999999113, 64501,999999184,
  66415,999999249, 68385,999999309, 70413,999999364, 72502,999999415, 74653,999999462, 76867,999999505,
  79147,999999544, 81495,999999581, 83912,999999614, 86401,999999645, 88964,999999673, 91603,999999700,
  94321,999999724, 97119,999999746, 100000,1000000000>>)

w2 == cdf(<<
  8,170107628, 32,189008475, 34,202751221, 36,216493966, 38,230236711, 40,243979457, 43,257722202, 46,271464947,
  49,285207692, 53,298950438, 58,312693183, 64,326435928, 67,327962653, 71,329489377, 75,331016102, 80,332542826,
  85,334069551, 91,335596275, 98,337123000, 107,338649725, 116,340176449, 128,341703174, 135,353916810,
  142,366130447, 151,378344084, 160,390557720, 171,402771357, 183,414984994, 197,427198631, 213,439412267,
  233,451625904, 256,463839541, 269,508495649, 284,553151757, 301,597807864, 320,642463972, 341,687120080,
  366,731776188, 394,776432296, 427,821088404, 465,865744512, 512,910400620, 539,915171572, 569,919942523,
  602,924713475, 640,929484427, 683,934255378, 731,939026330, 788,943797282, 853,948568233, 931,953339185,
  1024,958110137, 1078,960400194, 1138,962690252, 1205,964980309, 1280,967270367, 1365,969560425, 1463,971850482,
  1575,974140540, 1707,976430598, 1862,978720655, 2048,981010713, 2156,982441998, 2276,983873283, 2409,985304567,
  2560,986735852, 2731,988167137, 2926,989598422, 3151,991029707, 3413,992460992, 3724,993892277, 4096,995323562,
  4312,995633674, 4551,995943786, 4819,996253898, 5120,996564010, 5461,996874122, 5851,997184235, 6302,997494347,
  6827,997804459, 7447,998114571, 8192,998424683, 8623,998472393, 9102,998520102, 9638,998567811, 10240,998615521,
  10923,998663230, 11703,998710940, 12603,998758649, 13653,998806359, 14895,998854068, 16384,998901778,
  17246,998925632, 18204,998949487, 19275,998973342, 20480,998997197, 21845,999021051, 23406,999044906,
  25206,999068761, 27307,999092616, 29789,999116470, 32768,999140325, 34493,999161198, 36409,999182071,
  38551,999202944, 40960,999223817, 43691,999244690, 46811,999265563, 50412,999286436, 54613,999307308,
  59578,999328181, 65536,999349054, 68985,999401237, 72818,999453419, 77101,999505601, 81920,999557783,
  87381,999609966, 93623,999662148, 100825,999714330, 109227,999766513, 119156,999818695, 131072,999870877,
  137971,999881314, 145636,999891750, 154202,999902187, 163840,999912623, 174763,999923060, 187246,999933496,
  201649,999943932, 218453,999954369, 238313,999964805, 262144,999975242, 275941,999975987, 291271,999976733,
  308405,999977478, 327680,999978224, 349525,999978969, 374491,999979715, 403298,999980460, 436907,999981206,
  476625,999981951, 524288,999982696, 573085,999984427, 631896,999986157, 704160,999987888, 795085,999989618,
  912974,999991348, 1071908,999993079, 1297841,999994809, 1644453,999996539, 2243665,999998270, 3529904,1000000000>>)

w3 == cdf(<<
  8,64882623, 32,97323935, 36,108913295, 40,120502655, 46,132092016, 53,143681376, 64,155270737, 70,187987804,
  77,220704872, 85,253421940, 96,286139007, 110,318856075, 128,351573143, 137,369864095, 146,388155048,
  158,406446000, 171,424736953, 186,443027906, 205,461318858, 228,479609811, 256,497900763, 268,523993535,
  282,550086306, 296,576179078, 313,602271849, 331,628364621, 352,654457392, 375,680550164, 402,706642936,
  433,732735707, 469,758828479, 512,784921250, 531,790512559, 551,796103867, 573,801695175, 597,807286484,
  623,812877792, 652,818469101, 683,824060409, 717,829651718, 755,835243026, 796,840834335, 843,846425643,
  896,852016951, 956,857608260, 1024,863199568, 1053,865736366, 1084,868273163, 1117,870809961, 1152,873346759,
  1189,875883556, 1229,878420354, 1271,880957151, 1317,883493949, 1365,886030746, 1418,888567544, 1475,891104341,
  1536,893641139, 1603,896177936, 1676,898714734, 1755,901251531, 1843,903788329, 1940,906325127, 2048,908861924,
  2092,909949121, 2137,911036318, 2185,912123515, 2234,913210712, 2286,914297909, 2341,915385105, 2398,916472302,
  2458,917559499, 2521,918646696, 2587,919733893, 2657,920821090, 2731,921908287, 2809,922995484, 2891,924082681,
  2979,925169877, 3072,926257074, 3171,927344271, 3277,928431468, 3390,929518665, 3511,930605862, 3641,931693059,
  3781,932780256, 3932,933867452, 4096,934954649, 4163,935901566, 4233,936848483, 4304,937795399, 4378,938742316,
  4455,939689232, 4535,940636149, 4617,941583066, 4703,942529982, 4792,943476899, 4884,944423816, 4979,945370732,
  5079,946317649, 5183,947264565, 5291,948211482, 5403,949158399, 5521,950105315, 5643,951052232, 5772,951999148,
  5906,952946065, 6046,953892982, 6194,954839898, 6349,955786815, 6512,956733732, 6683,957680648, 6864,958627565,
  7054,959574481, 7256,960521398, 7469,961468315, 7696,962415231, 7936,963362148, 8192,964309065, 8293,964806259,
  8397,965303454, 8503,965800648, 8612,966297843, 8724,966795037, 8839,967292232, 8957,967789426, 9078,968286621,
  9202,968783815, 9330,969281010, 9461,969778205, 9596,970275399, 9735,970772594, 9879,971269788, 10026,971766983,
  10178,972264177, 10335,972761372, 10496,973258566, 10663,973755761, 10835,974252956, 11012,974750150,
  11196,975247345, 11385,975744539, 11582,976241734, 11785,976738928, 11995,977236123, 12214,977733317,
  12440,978230512, 12674,978727707, 12918,979224901, 13171,979722096, 13435,980219290, 13709,980716485,
  13995,981213679, 14292,981710874, 14603,982208068, 14928,982705263, 15267,983202457, 15622,983699652,
  15994,984196847, 16384,984694041, 16540,984801735, 16699,984909430, 16861,985017124, 17027,985124818,
  17195,985232512, 17367,985340207, 17542,985447901, 17721,985555595, 17904,985663289, 18091,985770983,
  18281,985878678, 18476,985986372, 18674,986094066, 18877,986201760, 19085,986309455, 19297,986417149,
  19514,986524843, 19735,986632537, 19962,986740232, 20194,986847926, 20432,986955620, 20675,987063314,
  20924,987171009, 21179,987278703, 21441,987386397, 21709,987494091, 21984,987601785, 22265,987709480,
  22555,987817174, 22851,987924868, 23156,988032562, 23469,988140257, 23790,988247951, 24121,988355645,
  24461,988463339, 24810,988571034, 25170,988678728, 25540,988786422, 25921,988894116, 26314,989001811,
  26719,989109505, 27136,989217199, 27567,989324893, 28011,989432587, 28471,989540282, 28945,989647976,
  29436,989755670, 29943,989863364, 30468,989971059, 31013,990078753, 31576,990186447, 32161,990294141,
  32768,990401836, 33007,990443196, 33250,990484557, 33496,990525918, 33746,990567279, 34000,990608639,
  34257,990650000, 34519,990691361, 34784,990732721, 35054,990774082, 35328,990815443, 35606,990856804,
  35889,990898164, 36176,990939525, 36468,990980886, 36764,991022247, 37065,991063607, 37372,991104968,
  37683,991146329, 38000,991187690, 38322,991229050, 38649,991270411, 38983,991311772, 39322,991353133,
  39667,991394493, 40018,991435854, 40375,991477215, 40739,991518575, 41109,991559936, 41486,991601297,
  41870,991642658, 42262,991684018, 42660,991725379, 43067,991766740, 43481,991808101, 43903,991849461,
  44333,991890822, 44772,991932183, 45220,991973544, 45677,992014904, 46143,992056265, 46618,992097626,
  47104,992138987, 47600,992180347, 48106,992221708, 48623,992263069, 49152,992304429, 49692,992345790,
  50244,992387151, 50809,992428512, 51386,992469872, 51977,992511233, 52581,992552594, 53200,992593955,
  53833,992635315, 54482,992676676, 55146,992718037, 55827,992759398, 56525,992800758, 57240,992842119,
  57974,992883480, 58727,992924841, 59500,992966201, 60293,993007562, 61108,993048923, 61945,993090284,
  62805,993131644, 63690,993173005, 64600,993214366, 65536,993255726, 65902,993298761, 66272,993341796,
  66647,993384831, 67025,993427866, 67408,993470901, 67796,993513936, 68188,993556971, 68584,993600006,
  68985,993643041, 69391,993686076, 69802,993729111, 70217,993772146, 70638,993815181, 71063,993858216,
  71494,993901251, 71930,993944286, 72371,993987321, 72818,994030356, 73270,994073391, 73728,994116426,
  74192,994159461, 74661,994202496, 75137,994245531, 75618,994288566, 76106,994331601, 76601,994374635,
  77101,994417670, 77608,994460705, 78122,994503740, 78643,994546775, 79171,994589810, 79706,994632845,
  80248,994675880, 80798,994718915, 81355,994761950, 81920,994804985, 82493,994848020, 83074,994891055,
  83663,994934090, 84261,994977125, 84867,995020160, 85482,995063195, 86106,995106230, 86739,995149265,
  87381,995192300, 88033,995235335, 88695,995278370, 89367,995321405, 90049,995364440, 90742,995407475,
  91446,995450510, 92160,995493545, 92886,995536580, 93623,995579614, 94372,995622649, 95133,995665684,
  95906,995708719, 96692,995751754, 97492,995794789, 98304,995837824, 99130,995880859, 99970,995923894,
  100825,995966929, 101694,996009964, 102578,996052999, 103478,996096034, 104394,996139069, 105326,996182104,
  106275,996225139, 107241,996268174, 108225,996311209, 109227,996354244, 110247,996397279, 111288,996440314,
  112347,996483349, 113428,996526384, 114529,996569419, 115652,996612454, 116797,996655489, 117965,996698524,
  119156,996741558, 120372,996784593, 121613,996827628, 122880,996870663, 124173,996913698, 125494,996956733,
  126844,996999768, 128223,997042803, 129632,997085838, 131072,997128873, 131630,997140095, 132192,997151318,
  132760,997162540, 133332,997173762, 133909,997184985, 134491,997196207, 135079,997207429, 135671,997218651,
  136269,997229874, 136872,997241096, 137480,997252318, 138094,997263541, 138713,997274763, 139338,997285985,
  139968,997297207, 140605,997308430, 141247,997319652, 141894,997330874, 142548,997342097, 143208,997353319,
  143874,997364541, 144547,997375763, 145225,997386986, 145910,997398208, 146602,997409430, 147300,997420653,
  148005,997431875, 148716,997443097, 149435,997454319, 150160,997465542, 150893,997476764, 151632,997487986,
  152379,997499209, 153134,997510431, 153895,997521653, 154665,997532875, 155442,997544098, 156227,997555320,
  157020,997566542, 157821,997577765, 158631,997588987, 159448,997600209, 160275,997611431, 161109,997622654,
  161953,997633876, 162805,997645098, 163667,997656321, 164537,997667543, 165417,997678765, 166306,997689987,
  167205,997701210, 168114,997712432, 169033,997723654, 169961,997734877, 170901,997746099, 171850,997757321,
  172810,997768543, 173781,997779766, 174763,997790988, 175756,997802210, 176760,997813433, 177776,997824655,
  178803,997835877, 179843,997847099, 180895,997858322, 181959,997869544, 183035,997880766, 184125,997891989,
  185227,997903211, 186343,997914433, 187473,997925655, 188616,997936878, 189773,997948100, 190944,997959322,
  192130,997970545, 193331,997981767, 194547,997992989, 195778,998004211, 197025,998015434, 198288,998026656,
  199568,998037878, 200864,998049101, 202176,998060323, 203507,998071545, 204854,998082767, 206220,998093990,
  207604,998105212, 209007,998116434, 210429,998127657, 211870,998138879, 213331,998150101, 214812,998161323,
  216315,998172546, 217838,998183768, 219383,998194990, 220950,998206212, 222540,998217435, 224152,998228657,
  225788,998239879, 227448,998251102, 229133,998262324, 230843,998273546, 232579,998284768, 234341,998295991,
  236130,998307213, 237946,998318435, 239791,998329658, 241664,998340880, 243567,998352102, 245500,998363324,
  247464,998374547, 249460,998385769, 251488,998396991, 253549,998408214, 255645,998419436, 257775,998430658,
  259941,998441880, 262144,998453103, 263003,998459934, 263869,998466765, 264739,998473595, 265616,998480426,
  266499,998487257, 267387,998494088, 268281,998500919, 269181,998507750, 270088,998514581, 271000,998521412,
  271919,998528243, 272844,998535074, 273775,998541904, 274713,998548735, 275657,998555566, 276607,998562397,
  277564,998569228, 278528,998576059, 279498,998582890, 280476,998589721, 281460,998596552, 282451,998603382,
  283449,998610213, 284454,998617044, 285466,998623875, 286486,998630706, 287513,998637537, 288547,998644368,
  289589,998651199, 290638,998658030, 291695,998664861, 292759,998671691, 293832,998678522, 294912,998685353,
  296000,998692184, 297097,998699015, 298201,998705846, 299314,998712677, 300435,998719508, 301564,998726339,
  302702,998733170, 303849,998740000, 305004,998746831, 306168,998753662, 307341,998760493, 308523,998767324,
  309715,998774155, 310915,998780986, 312125,998787817, 313344,998794648, 314573,998801478, 315811,998808309,
  317060,998815140, 318318,998821971, 319586,998828802, 320864,998835633, 322153,998842464, 323452,998849295,
  324761,998856126, 326082,998862957, 327413,998869787, 328754,998876618, 330107,998883449, 331471,998890280,
  332847,998897111, 334234,998903942, 335632,998910773, 337042,998917604, 338464,998924435, 339899,998931266,
  341345,998938096, 342804,998944927, 344275,998951758, 345759,998958589, 347256,998965420, 348765,998972251,
  350288,998979082, 351825,998985913, 353375,998992744, 354938,998999574, 356516,999006405, 358107,999013236,
  359713,999020067, 361334,999026898, 362969,999033729, 364618,999040560, 366283,999047391, 367964,999054222,
  369659,999061053, 371371,999067883, 373098,999074714, 374841,999081545, 376601,999088376, 378378,999095207,
  380171,999102038, 381981,999108869, 383809,999115700, 385654,999122531, 387517,999129362, 389398,999136192,
  391298,999143023, 393216,999149854, 395153,999156685, 397109,999163516, 399085,999170347, 401080,999177178,
  403096,999184009, 405132,999190840, 407188,999197670, 409266,999204501, 411364,999211332, 413485,999218163,
  415627,999224994, 417792,999231825, 419979,999238656, 422190,999245487, 424424,999252318, 426681,999259149,
  428963,999265979, 431269,999272810, 433600,999279641, 435957,999286472, 438339,999293303, 440748,999300134,
  443183,999306965, 445645,999313796, 448134,999320627, 450652,999327458, 453198,999334288, 455773,999341119,
  458378,999347950, 461012,999354781, 463677,999361612, 466372,999368443, 469100,999375274, 471859,999382105,
  474651,999388936, 477477,999395766, 480336,999402597, 483229,999409428, 486158,999416259, 489122,999423090,
  492123,999429921, 495161,999436752, 498236,999443583, 501350,999450414, 504504,999457245, 507697,999464075,
  510930,999470906, 514206,999477737, 517523,999484568, 520884,999491399, 524288,999498230, 526844,999500751,
  529425,999503273, 532031,999505794, 534663,999508316, 537322,999510837, 540006,999513359, 542718,999515880,
  545458,999518402, 548225,999520923, 551020,999523445, 553844,999525966, 556697,999528487, 559579,999531009,
  562492,999533530, 565435,999536052, 568408,999538573, 571414,999541095, 574451,999543616, 577521,999546138,
  580624,999548659, 583760,999551181, 586931,999553702, 590136,999556223, 593376,999558745, 596652,999561266,
  599964,999563788, 603313,999566309, 606700,999568831, 610125,999571352, 613590,999573874, 617093,999576395,
  620637,999578917, 624222,999581438, 627848,999583959, 631517,999586481, 635229,999589002, 638985,999591524,
  642786,999594045, 646632,999596567, 650524,999599088, 654463,999601610, 658451,999604131, 662487,999606653,
  666573,999609174, 670710,999611696, 674899,999614217, 679140,999616738, 683435,999619260, 687784,999621781,
  692190,999624303, 696652,999626824, 701172,999629346, 705750,999631867, 710390,999634389, 715090,999636910,
  719853,999639432, 724680,999641953, 729573,999644474, 734531,999646996, 739558,999649517, 744654,999652039,
  749820,999654560, 755059,999657082, 760371,999659603, 765759,999662125, 771224,999664646, 776767,999667168,
  782390,999669689, 788096,999672211, 793885,999674732, 799760,999677253, 805723,999679775, 811775,999682296,
  817919,999684818, 824156,999687339, 830490,999689861, 836921,999692382, 843453,999694904, 850088,999697425,
  856827,999699947, 863675,999702468, 870633,999704989, 877704,999707511, 884890,999710032, 892196,999712554,
  899623,999715075, 907174,999717597, 914854,999720118, 922664,999722640, 930609,999725161, 938693,999727683,
  946917,999730204, 955288,999732725, 963807,999735247, 972480,999737768, 981310,999740290, 990302,999742811,
  999461,999745333, 1008790,999747854, 1018296,999750376, 1027982,999752897, 1037854,999755419, 1047917,999757940,
  1058178,999760462, 1068642,999762983, 1079314,999765504, 1090202,999768026, 1101312,999770547, 1112651,999773069,
  1124225,999775590, 1136043,999778112, 1148112,999780633, 1160440,999783155, 1173036,999785676, 1185908,999788198,
  1199066,999790719, 1212519,999793240, 1226277,999795762, 1240351,999798283, 1254752,999800805, 1269492,999803326,
  1284581,999805848, 1300034,999808369, 1315863,999810891, 1332082,999813412, 1348706,999815934, 1365751,999818455,
  1383231,999820977, 1401165,999823498, 1419570,999826019, 1438465,999828541, 1457870,999831062, 1477805,999833584,
  1498294,999836105, 1519358,999838627, 1541023,999841148, 1563315,999843670, 1586261,999846191, 1609891,999848713,
  1634235,999851234, 1659327,999853755, 1685202,999856277, 1711896,999858798, 1739450,999861320, 1767905,999863841,
  1797307,999866363, 1827703,999868884, 1859145,999871406, 1891687,999873927, 1925389,999876449, 1960314,999878970,
  1996529,999881491, 2034108,999884013, 2073128,999886534, 2113675,999889056, 2155839,999891577, 2199720,999894099,
  2245424,999896620, 2293067,999899142, 2342777,999901663, 2394689,999904185, 2448954,999906706, 2505735,999909228,
  2565212,999911749, 2627581,999914270, 2693059,999916792, 2761883,999919313, 2834317,999921835, 2910653,999924356,
  2991214,999926878, 3076362,999929399, 3166500,999931921, 3262080,999934442, 3363608,999936964, 3471660,999939485,
  3586885,999942006, 3710020,999944528, 3841911,999947049, 3983524,999949571, 4135977,999952092, 4300563,999954614,
  4478791,999957135, 4672430,999959657, 4883570,999962178, 5114695,999964700, 5368784,999967221, 5649438,999969743,
  5961053,999972264, 6309051,999974785, 6700199,999977307, 7143054,999979828, 7648594,999982350, 8231141,999984871,
  8909743,999987393, 9710291,999989914, 10668901,999992436, 11837511,999994957, 13293619,999997479,
  15158197,1000000000>>)

w4 == cdf(<<
  53,740000, 56,1480000, 60,2220000, 64,2960000, 68,3700000, 72,4440000, 77,5180000, 81,5920000, 87,6660000,
  92,7400000, 100,8150000, 109,8900000, 119,9650000, 130,10400000, 141,11150000, 154,11900000, 168,12650000,
  183,13400000, 199,14150000, 217,14900000, 222,17500000, 227,20100000, 232,22700000, 237,25300000, 243,27900000,
  248,30500000, 254,33100000, 259,35700000, 265,38300000, 271,40900000, 274,42010000, 277,43120000, 279,44230000,
  282,45340000, 285,46450000, 288,47560000, 291,48670000, 294,49780000, 297,50890000, 300,52000000, 303,60550000,
  305,69100000, 308,77650000, 310,86200000, 313,94750000, 315,103300000, 318,111850000, 321,120400000, 323,128950000,
  326,137500000, 331,144010000, 335,150520000, 340,157030000, 345,163540000, 350,170050000, 355,176560000,
  360,183070000, 365,189580000, 371,196090000, 376,202600000, 381,204640000, 385,206680000, 390,208720000,
  395,210760000, 400,212800000, 405,214840000, 410,216880000, 415,218920000, 420,220960000, 425,223000000,
  430,227090000, 435,231180000, 441,235270000, 446,239360000, 452,243450000, 457,247540000, 463,251630000,
  468,255720000, 474,259810000, 480,263900000, 491,283420000, 502,302940000, 513,322460000, 525,341980000,
  537,361500000, 549,381020000, 561,400540000, 574,420060000, 587,439580000, 600,459100000, 607,464860000,
  615,470620000, 623,476380000, 630,482140000, 638,487900000, 646,493660000, 654,499420000, 662,505180000,
  671,510940000, 679,516700000, 685,520230000, 690,523760000, 696,527290000, 702,530820000, 707,534350000,
  713,537880000, 719,541410000, 725,544940000, 731,548470000, 737,552000000, 743,554420000, 749,556840000,
  755,559260000, 762,561680000, 768,564100000, 774,566520000, 781,568940000, 787,571360000, 793,573780000,
  800,576200000, 808,577700000, 816,579200000, 825,580700000, 833,582200000, 841,583700000, 850,585200000,
  859,586700000, 867,588200000, 876,589700000, 885,591200000, 900,593050000, 914,594900000, 929,596750000,
  945,598600000, 960,600450000, 976,602300000, 992,604150000, 1009,606000000, 1025,607850000, 1042,609700000,
  1063,611550000, 1085,613400000, 1108,615250000, 1130,617100000, 1154,618950000, 1177,620800000, 1201,622650000,
  1226,624500000, 1251,626350000, 1277,628200000, 1290,629320000, 1303,630440000, 1316,631560000, 1330,632680000,
  1343,633800000, 1357,634920000, 1371,636040000, 1385,637160000, 1399,638280000, 1413,639400000, 1425,640140000,
  1436,640880000, 1448,641620000, 1460,642360000, 1472,643100000, 1484,643840000, 1497,644580000, 1509,645320000,
  1521,646060000, 1534,646800000, 1547,648850000, 1559,650900000, 1572,652950000, 1585,655000000, 1598,657050000,
  1611,659100000, 1624,661150000, 1637,663200000, 1651,665250000, 1664,667300000, 1712,668040000, 1762,668780000,
  1813,669520000, 1865,670260000, 1919,671000000, 1975,671740000, 2032,672480000, 2091,673220000, 2152,673960000,
  2214,674700000, 2311,675630000, 2412,676560000, 2517,677490000, 2627,678420000, 2742,679350000, 2862,680280000,
  2987,681210000, 3118,682140000, 3254,683070000, 3396,684000000, 3544,684930000, 3699,685860000, 3861,686790000,
  4030,687720000, 4206,688650000, 4390,689580000, 4582,690510000, 4783,691440000, 4992,692370000, 5210,693300000,
  5427,694790000, 5652,696280000, 5887,697770000, 6132,699260000, 6387,700750000, 6653,702240000, 6929,703730000,
  7217,705220000, 7517,706710000, 7830,708200000, 9012,709500000, 10373,710800000, 11939,712100000, 13741,713400000,
  15816,714700000, 18203,716000000, 20952,717300000, 24115,718600000, 27756,719900000, 31946,721200000,
  32405,722130000, 32871,723060000, 33343,723990000, 33822,724920000, 34308,725850000, 34801,726780000,
  35301,727710000, 35808,728640000, 36322,729570000, 36844,730500000, 37146,731430000, 37450,732360000,
  37756,733290000, 38065,734220000, 38377,735150000, 38691,736080000, 39007,737010000, 39327,737940000,
  39648,738870000, 39973,739800000, 40382,741660000, 40796,743520000, 41214,745380000, 41636,747240000,
  42062,749100000, 42493,750960000, 42928,752820000, 43367,754680000, 43811,756540000, 44260,758400000,
  44531,760440000, 44804,762480000, 45079,764520000, 45356,766560000, 45634,768600000, 45913,770640000,
  46195,772680000, 46478,774720000, 46763,776760000, 47050,778800000, 47435,782520000, 47823,786240000,
  48215,789960000, 48609,793680000, 49007,797400000, 49408,801120000, 49813,804840000, 50221,808560000,
  50632,812280000, 51046,816000000, 52097,816740000, 53169,817480000, 54264,818220000, 55381,818960000,
  56521,819700000, 57684,820440000, 58872,821180000, 60084,821920000, 61321,822660000, 62583,823400000,
  63353,824330000, 64132,825260000, 64921,826190000, 65720,827120000, 66528,828050000, 67347,828980000,
  68175,829910000, 69014,830840000, 69863,831770000, 70722,832700000, 71156,833630000, 71592,834560000,
  72031,835490000, 72473,836420000, 72917,837350000, 73364,838280000, 73814,839210000, 74266,840140000,
  74722,841070000, 75180,842000000, 75795,844970000, 76416,847940000, 77041,850910000, 77672,853880000,
  78307,856850000, 78948,859820000, 79595,862790000, 80246,865760000, 80903,868730000, 81565,871700000,
  83414,873380000, 85305,875060000, 87238,876740000, 89216,878420000, 91238,880100000, 93306,881780000,
  95421,883460000, 97584,885140000, 99796,886820000, 102058,888500000, 103313,889430000, 104584,890360000,
  105871,891290000, 107173,892220000, 108492,893150000, 109826,894080000, 111177,895010000, 112545,895940000,
  113929,896870000, 115331,897800000, 116988,898720000, 118669,899640000, 120373,900560000, 122103,901480000,
  123857,902400000, 125636,903320000, 127441,904240000, 129272,905160000, 131129,906080000, 133013,907000000,
  135199,907940000, 137421,908880000, 139679,909820000, 141975,910760000, 144308,911700000, 146680,912640000,
  149091,913580000, 151541,914520000, 154032,915460000, 156563,916400000, 159136,917330000, 161752,918260000,
  164410,919190000, 167112,920120000, 169859,921050000, 172651,921980000, 175488,922910000, 178373,923840000,
  181304,924770000, 184284,925700000, 186932,926620000, 189618,927540000, 192343,928460000, 195107,929380000,
  197911,930300000, 200755,931220000, 203640,932140000, 206566,933060000, 209535,933980000, 212546,934900000,
  215160,935830000, 217805,936760000, 220484,937690000, 223195,938620000, 225940,939550000, 228718,940480000,
  231530,941410000, 234377,942340000, 237259,943270000, 240177,944200000, 244622,945130000, 249150,946060000,
  253761,946990000, 258458,947920000, 263241,948850000, 268113,949780000, 273075,950710000, 278129,951640000,
  283277,952570000, 288520,953500000, 302981,954430000, 318166,955360000, 334113,956290000, 350858,957220000,
  368444,958150000, 386910,959080000, 406302,960010000, 426666,960940000, 448051,961870000, 470507,962800000,
  492079,963360000, 514641,963920000, 538237,964480000, 562914,965040000, 588723,965600000, 615716,966160000,
  643946,966720000, 673470,967280000, 704348,967840000, 736642,968400000, 754877,968770000, 773563,969140000,
  792711,969510000, 812333,969880000, 832442,970250000, 853048,970620000, 874164,970990000, 895802,971360000,
  917977,971730000, 940700,972100000, 1002039,973030000, 1067379,973960000, 1136978,974890000, 1211116,975820000,
  1290088,976750000, 1374210,977680000, 1463817,978610000, 1559267,979540000, 1660940,980470000, 1769244,981400000,
  1805665,981960000, 1842837,982520000, 1880773,983080000, 1919490,983640000, 1959005,984200000, 1999332,984760000,
  2040490,985320000, 2082496,985880000, 2125366,986440000, 2169118,987000000, 2527289,988300000, 2944602,989600000,
  3430822,990900000, 3997329,992200000, 4657379,993500000, 5426418,994800000, 6322443,996100000, 7366423,997400000,
  8582787,998700000, 10000000,1000000000>>)

w5 == cdf(<<
  1430,25000000, 2860,50000000, 4290,75000000, 5720,100000000, 7150,125000000, 8580,150000000, 10010,157143000,
  11440,164286000, 13230,171429000, 14700,178571000, 16170,185714000, 17640,192857000, 19110,200000000,
  20580,216667000, 22050,233333000, 23520,250000000, 24990,266667000, 26460,283333000, 27930,300000000,
  29400,307143000, 30870,314286000, 32340,321429000, 33810,328571000, 35280,335714000, 36750,342857000,
  38220,350000000, 39690,357143000, 41160,364286000, 42630,371429000, 44100,378571000, 45570,385714000,
  47040,392857000, 48510,400000000, 49980,406500000, 51450,413000000, 52920,419500000, 54390,426000000,
  55860,432500000, 57330,439000000, 58800,445500000, 60270,452000000, 61740,458500000, 63210,465000000,
  64680,471500000, 66150,478000000, 67620,484500000, 69090,491000000, 70560,497500000, 72030,504000000,
  73500,510500000, 74970,517000000, 76440,523500000, 77910,530000000, 79380,530875000, 80850,531750000,
  82320,532625000, 83790,533500000, 85260,534375000, 86730,535250000, 88200,536125000, 89670,537000000,
  91140,537875000, 92610,538750000, 94080,539625000, 95550,540500000, 97020,541375000, 98490,542250000,
  99960,543125000, 101430,544000000, 102900,544875000, 104370,545750000, 105840,546625000, 107310,547500000,
  108780,548375000, 110250,549250000, 111720,550125000, 113190,551000000, 114660,551875000, 116130,552750000,
  117600,553625000, 119070,554500000, 120540,555375000, 122010,556250000, 123480,557125000, 124950,558000000,
  126420,558875000, 127890,559750000, 129360,560625000, 130830,561500000, 132300,562375000, 133770,563250000,
  135240,564125000, 136710,565000000, 138180,565875000, 139650,566750000, 141120,567625000, 142590,568500000,
  144060,569375000, 145530,570250000, 147000,571125000, 148470,572000000, 149940,572875000, 151410,573750000,
  152880,574625000, 154350,575500000, 155820,576375000, 157290,577250000, 158760,578125000, 160230,579000000,
  161700,579875000, 163170,580750000, 164640,581625000, 166110,582500000, 167580,583375000, 169050,584250000,
  170520,585125000, 171990,586000000, 173460,586875000, 174930,587750000, 176400,588625000, 177870,589500000,
  179340,590375000, 180810,591250000, 182280,592125000, 183750,593000000, 185220,593875000, 186690,594750000,
  188160,595625000, 189630,596500000, 191100,597375000, 192570,598250000, 194040,599125000, 195510,600000000,
  196980,600187000, 198450,600375000, 199920,600562000, 201390,600749000, 202860,600936000, 204330,601124000,
  205800,601311000, 207270,601498000, 208740,601685000, 210210,601873000, 211680,602060000, 213150,602247000,
  214620,602434000, 216090,602622000, 217560,602809000, 219030,602996000, 220500,603184000, 221970,603371000,
  223440,603558000, 224910,603745000, 226380,603933000, 227850,604120000, 229320,604307000, 230790,604494000,
  232260,604682000, 233730,604869000, 235200,605056000, 236670,605243000, 238140,605431000, 239610,605618000,
  241080,605805000, 242550,605993000, 244020,606180000, 245490,606367000, 246960,606554000, 248430,606742000,
  249900,606929000, 251370,607116000, 252840,607303000, 254310,607491000, 255780,607678000, 257250,607865000,
  258720,608052000, 260190,608240000, 261660,608427000, 263130,608614000, 264600,608801000, 266070,608989000,
  267540,609176000, 269010,609363000, 270480,609551000, 271950,609738000, 273420,609925000, 274890,610112000,
  276360,610300000, 277830,610487000, 279300,610674000, 280770,610861000, 282240,611049000, 283710,611236000,
  285180,611423000, 286650,611610000, 288120,611798000, 289590,611985000, 291060,612172000, 292530,612360000,
  294000,612547000, 295470,612734000, 296940,612921000, 298410,613109000, 299880,613296000, 301350,613483000,
  302820,613670000, 304290,613858000, 305760,614045000, 307230,614232000, 308700,614419000, 310170,614607000,
  311640,614794000, 313110,614981000, 314580,615169000, 316050,615356000, 317520,615543000, 318990,615730000,
  320460,615918000, 321930,616105000, 323400,616292000, 324870,616479000, 326340,616667000, 327810,616854000,
  329280,617041000, 330750,617228000, 332220,617416000, 333690,617603000, 335160,617790000, 336630,617978000,
  338100,618165000, 339570,618352000, 341040,618539000, 342510,618727000, 343980,618914000, 345450,619101000,
  346920,619288000, 348390,619476000, 349860,619663000, 351330,619850000, 352800,620037000, 354270,620225000,
  355740,620412000, 357210,620599000, 358680,620787000, 360150,620974000, 361620,621161000, 363090,621348000,
  364560,621536000, 373380,622659000, 392490,625094000, 411600,627528000, 432180,630150000, 451290,632584000,
  470400,635019000, 490980,637640000, 510090,640075000, 529200,642509000, 549780,645131000, 568890,647566000,
  588000,650000000, 608580,652622000, 627690,655056000, 648270,657678000, 667380,660112000, 686490,662547000,
  707070,665169000, 726180,667603000, 745290,670037000, 765870,672659000, 784980,675094000, 804090,677528000,
  824670,680150000, 843780,682584000, 862890,685019000, 883470,687640000, 902580,690075000, 921690,692509000,
  942270,695131000, 961380,697566000, 980490,700000000, 1005480,702553000, 1030470,705105000, 1053990,707508000,
  1078980,710060000, 1103970,712613000, 1127490,715015000, 1152480,717568000, 1177470,720120000, 1200990,722523000,
  1225980,725075000, 1250970,727628000, 1274490,730030000, 1299480,732583000, 1324470,735135000, 1347990,737538000,
  1372980,740090000, 1397970,742643000, 1421490,745045000, 1446480,747598000, 1470000,750000000, 1494990,752553000,
  1519980,755105000, 1543500,757508000, 1568490,760060000, 1593480,762613000, 1617000,765015000, 1641990,767568000,
  1666980,770120000, 1690500,772523000, 1715490,775075000, 1740480,777628000, 1764000,780030000, 1788990,782583000,
  1813980,785135000, 1837500,787538000, 1862490,790090000, 1887480,792643000, 1911000,795045000, 1935990,797598000,
  1959510,800000000, 2033010,802500000, 2106510,805000000, 2180010,807500000, 2253510,810000000, 2327010,812500000,
  2400510,815000000, 2474010,817500000, 2547510,820000000, 2621010,822500000, 2694510,825000000, 2768010,827500000,
  2841510,830000000, 2915010,832500000, 2988510,835000000, 3062010,837500000, 3135510,840000000, 3209010,842500000,
  3282510,845000000, 3356010,847500000, 3429510,850000000, 3503010,852500000, 3576510,855000000, 3650010,857500000,
  3723510,860000000, 3797010,862500000, 3870510,865000000, 3944010,867500000, 4017510,870000000, 4091010,872500000,
  4164510,875000000, 4238010,877500000, 4311510,880000000, 4385010,882500000, 4458510,885000000, 4532010,887500000,
  4605510,890000000, 4679010,892500000, 4752510,895000000, 4826010,897500000, 4899510,900000000, 10291470,902505000,
  10780980,905003000, 11270490,907500000, 11761470,910005000, 12250980,912503000, 12740490,915000000,
  13231470,917505000, 13720980,920003000, 14210490,922501000, 14701470,925006000, 15190980,927503000,
  15680490,930001000, 16171470,932506000, 16660980,935003000, 17150490,937501000, 17641470,940006000,
  18130980,942504000, 18620490,945001000, 19111470,947506000, 19600980,950004000, 20090490,952501000,
  20581470,955006000, 21070980,957504000, 21560490,960002000, 22051470,962507000, 22540980,965004000,
  23030490,967502000, 23521470,970007000, 24010980,972504000, 24500490,975002000, 24991470,977507000,
  25480980,980005000, 25970490,982502000, 26461470,985007000, 26950980,987505000, 27440490,990002000,
  27931470,992507000, 28420980,995005000, 28910490,997502000, 29400000,1000000000>>)
=============================================================================
