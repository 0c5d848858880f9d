SPECIFICATION Spec
CONSTANTS
    a = a
    b = b
    o1 = o1
    o2 = o2
    o3 = o3
    t1 = t1
    t2 = t2
    Contents <- TwoContents
    Garbled = Garbled
    Objects <- Heap
    Threads <- Goroutines
    Patches <- Arriving
    ProducerSeed = 1
    ConsumerSeed = 2
    Free = Free
    Dead = Dead
    Absent = Absent
PROPERTIES
    EvictedMeansDropped
