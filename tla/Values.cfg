CONSTANTS
    Maps = {m1, m2}
    Keys = {1, 2, 5}
    Values = {1, 2}
    MAP_HASH_TABLE_SIZE = 2
    FILL_PERCENT = 80
    MAX_TABLE_SIZE = 4
    MAX_MAPPING_SIZE = 2
    Excluded = {"link", "write_buffer", "input_to", "get_char", "find_object", "next_inventory",
                "stat", "objects", "ed", "map", "terminal_colour"}
    Careful = {"shadow", "snoop", "reload_object", "bind", "all_inventory", "deep_inventory"}
SPECIFICATION Spec
INVARIANTS EfunsSound MappingsSound OperatorsAgree ArraysCounted ArraysAsMeant
           RegexpMeansPattern RestoreGivesBack EditsAsAsked IndentsOnce
CHECK_DEADLOCK FALSE
