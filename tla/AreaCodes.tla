------------------------------ MODULE AreaCodes ------------------------------
(***************************************************************************)
(* The routing table of app/core/timezone_maps.py, all 334 area codes, as  *)
(* time zones with the <<state, codes>> that keep each.  An area code is a *)
(* natural number: none of them starts with a zero.                        *)
(***************************************************************************)
EXTENDS Integers, Sequences

EasternCodes ==
    <<"America/New_York",
     {<<"CT", {203, 475, 860, 959}>>, <<"DE", {302}>>, <<"DC", {202}>>,
      <<"FL", {239, 305, 321, 352, 386, 407, 561, 689, 727, 754, 772, 786,
            813, 863, 904, 941, 954}>>,
      <<"GA", {229, 404, 470, 478, 678, 706, 762, 770, 912, 943}>>,
      <<"IN", {260, 317, 463, 574, 765, 812, 930}>>,
      <<"KY", {502, 606, 859}>>, <<"ME", {207}>>,
      <<"MD", {240, 301, 410, 443, 667}>>,
      <<"MA", {339, 351, 413, 508, 617, 774, 781, 857, 978}>>,
      <<"MI", {231, 248, 269, 313, 517, 586, 616, 734, 810, 906, 947, 989}>>,
      <<"NH", {603}>>,
      <<"NJ", {201, 551, 609, 732, 848, 856, 862, 908, 973}>>,
      <<"NY", {212, 315, 332, 347, 516, 518, 585, 607, 631, 646, 680, 716,
            718, 838, 845, 914, 917, 929, 934}>>,
      <<"NC", {252, 336, 704, 743, 828, 910, 919, 980, 984}>>,
      <<"OH", {216, 220, 234, 283, 330, 380, 419, 440, 513, 567, 614, 740,
            937}>>,
      <<"PA", {215, 223, 267, 272, 412, 445, 484, 570, 610, 717, 724, 814,
            835, 878}>>,
      <<"RI", {401}>>, <<"SC", {803, 839, 843, 854, 864}>>,
      <<"TN", {423, 865}>>, <<"VA", {276, 434, 540, 571, 703, 757, 804}>>,
      <<"VT", {802}>>, <<"WV", {304, 681}>>}>>

CentralCodes ==
    <<"America/Chicago",
     {<<"FL", {850}>>, <<"AL", {205, 251, 256, 334, 938}>>,
      <<"AR", {479, 501, 870}>>,
      <<"IL", {217, 224, 309, 312, 331, 447, 464, 618, 630, 708, 773, 779,
            815, 847, 872}>>,
      <<"IN", {219}>>, <<"IA", {319, 515, 563, 641, 712}>>,
      <<"KS", {316, 620, 785, 913}>>, <<"KY", {270, 364}>>,
      <<"LA", {225, 318, 337, 504, 985}>>,
      <<"MN", {218, 320, 507, 612, 651, 763, 952}>>,
      <<"MS", {228, 601, 662, 769}>>,
      <<"MO", {314, 417, 573, 636, 660, 816}>>, <<"NE", {308, 402, 531}>>,
      <<"ND", {701}>>, <<"OK", {405, 539, 580, 918}>>, <<"SD", {605}>>,
      <<"TN", {615, 629, 731, 901, 931}>>,
      <<"TX", {210, 214, 254, 281, 325, 346, 361, 409, 430, 432, 469, 512,
            682, 713, 726, 737, 806, 817, 830, 832, 903, 936, 940, 945,
            956, 972, 979}>>,
      <<"WI", {262, 414, 534, 608, 715, 920}>>}>>

MountainCodes ==
    <<"America/Denver",
     {<<"CO", {303, 719, 720, 970}>>, <<"ID", {208, 986}>>, <<"MT", {406}>>,
      <<"NM", {505, 575}>>, <<"TX", {915}>>, <<"UT", {385, 435, 801}>>,
      <<"WY", {307}>>}>>

\* Mutant: Arizona is listed with the rest of the mountain states.
ArizonaCodesMountain ==
    <<"America/Denver", {<<"AZ", {480, 520, 602, 623, 928}>>}>>

ArizonaCodes ==
    <<"America/Phoenix", {<<"AZ", {480, 520, 602, 623, 928}>>}>>

PacificCodes ==
    <<"America/Los_Angeles",
     {<<"CA", {209, 213, 310, 323, 341, 350, 408, 415, 424, 442, 510, 530,
            559, 562, 619, 626, 628, 650, 657, 661, 669, 707, 714, 747,
            760, 764, 805, 818, 820, 831, 858, 909, 916, 925, 949, 951}>>,
      <<"NV", {702, 725, 775}>>, <<"OR", {458, 503, 541, 971}>>,
      <<"WA", {206, 253, 360, 425, 509, 564}>>}>>

IslandAndAlaskaCodes ==
    {<<"America/Anchorage", {<<"AK", {907}>>}>>,
     <<"Pacific/Honolulu", {<<"HI", {808}>>}>>,
     <<"America/Puerto_Rico", {<<"PR", {787, 939}>>}>>,
     <<"America/St_Thomas", {<<"VI", {340}>>}>>,
     <<"Pacific/Guam", {<<"GU", {671}>>}>>,
     <<"Pacific/Saipan", {<<"MP", {670}>>}>>,
     <<"Pacific/Pago_Pago", {<<"AS", {684}>>}>>}

-----------------------------------------------------------------------------
Sections ==
    {EasternCodes, CentralCodes, MountainCodes, ArizonaCodes, PacificCodes}
        \cup IslandAndAlaskaCodes

\* The table, row by row: <<zone, state, codes>>.
Entries == UNION {{<<s[1], g[1], g[2]>> : g \in s[2]} : s \in Sections}

ListedCodes == UNION {e[3] : e \in Entries}

EntryOf(a) == CHOOSE e \in Entries : a \in e[3]

AreaCodeTable ==
    [a \in ListedCodes |->
        [state_code |-> EntryOf(a)[2], timezone |-> EntryOf(a)[1]]]

=============================================================================
